---- MODULE Spec2Model ----
(***************************************************************************)
(* ADmyBRAND Insights dashboard (src/admybrand.js): the derived-data       *)
(* pipeline and the page state of DashboardPage.                           *)
(*                                                                         *)
(* Conventions of the model                                                *)
(*  - A JavaScript string is a sequence of one-character strings, so that  *)
(*    toLowerCase, includes, localeCompare and number formatting are       *)
(*    computed character by character.                                     *)
(*  - Math.random() is one of the RandMod equally spaced values k/RandMod; *)
(*    a run of the generator is the orbit of a seed under NextRandom.      *)
(*  - A quantity that is fractional in the program is kept as an exact     *)
(*    numerator over a fixed denominator (named where it is used).         *)
(***************************************************************************)
EXTENDS Integers, Sequences, FiniteSets, TLC

VARIABLES
    seed,               \* state of the Math.random generator when the module loads
    loadTime,           \* new Date() when the module loads and generates its data
    now,                \* the clock: what new Date() returns
    timers,             \* pending setTimeout callbacks, in the order they were set
    activePage,         \* MainApp state: 'dashboard' or 'reports'
    showPageContent,    \* MainApp state
    isSidebarOpen,      \* MainApp state
    lastClicked,        \* the page of the navigation link noted as clicked last, "none" when none is
    dateRange,          \* state of the mounted page (DashboardPage or ReportsPage)
    loadingData,        \* state of the mounted page
    currentPeriodData,  \* state of the mounted page
    prevPeriodData,     \* DashboardPage state
    filterText,         \* DashboardPage state
    currentPage,        \* DashboardPage state, 1-based
    sortColumn,         \* DashboardPage state, "null" when unset
    sortDirection,      \* DashboardPage state, "asc" or "desc"
    campaignStore,      \* the elements of the array that campaignData refers to
    metricData,         \* a call of getMetricValue: the argument data
    metricKey,          \* ... the argument key
    metricPrev,         \* ... the argument prevPeriodData
    metricOutcome,      \* ... what the call returned or threw
    chartData,          \* a render of a chart component: the prop data (stages)
    chartLoading,       \* ... the prop loading
    chartOutcome,       \* ... what it rendered or threw
    goalCurrent,        \* a render of ProgressBar: the prop current
    goalTarget,         \* ... the prop target
    goalOutcome,        \* ... the progress and isComplete it computed
    theme,              \* ThemeProvider state, "unmounted" before the first render
    storedTheme,        \* localStorage item 'theme', "null" when absent
    prefersDark,        \* matchMedia('(prefers-color-scheme: dark)').matches
    rootClasses         \* classList of document.documentElement

envVars == <<seed, loadTime>>
appVars == <<activePage, showPageContent, isSidebarOpen>>
fetchVars == <<dateRange, loadingData, currentPeriodData, prevPeriodData>>
tableVars == <<filterText, currentPage, sortColumn, sortDirection>>
moduleVars == <<campaignStore>>
inputVars == <<lastClicked>>
callVars == <<metricData, metricKey, metricPrev, metricOutcome>>
chartVars == <<chartData, chartLoading, chartOutcome>>
goalVars == <<goalCurrent, goalTarget, goalOutcome>>
themeVars == <<theme, storedTheme, prefersDark, rootClasses>>
vars == <<envVars, moduleVars, inputVars, now, timers, appVars, fetchVars, tableVars, callVars,
          chartVars, goalVars, themeVars>>

(***************************************************************************)
(* Bounds of the model                                                     *)
(***************************************************************************)
\* Seeds of the random stream are 0..MaxSeed.
MaxSeed == 1
\* The clock runs from loadTime to loadTime + MaxElapsed (in TimeUnit steps).
MaxElapsed == 10
\* Page transitions that may be pending at once.
MaxPendingNav == 2
\* Sample windows handed to getMetricValue have up to MaxWindowLen records
\* built from the values 0..MaxMetricValue.
MaxWindowLen == 2
MaxMetricValue == 1
\* Sample chart inputs have up to MaxChartLen rows with values 0..MaxChartValue.
MaxChartLen == 3
MaxChartValue == 2
\* Goals have targets 0..MaxGoalTarget and current values 0..MaxGoalCurrent.
MaxGoalTarget == 5
MaxGoalCurrent == 8

(***************************************************************************)
(* Small arithmetic helpers                                                *)
(***************************************************************************)
Min(a, b) == IF a <= b THEN a ELSE b
Max(a, b) == IF a >= b THEN a ELSE b
Abs(a) == IF a < 0 THEN -a ELSE a

\* Math.ceil(n / d) for n >= 0, d > 0
MathCeilDiv(n, d) == (n + d - 1) \div d

(***************************************************************************)
(* Strings                                                                 *)
(***************************************************************************)
UpperLetters == <<"A","B","C","D","E","F","G","H","I","J","K","L","M","N","O","P","Q","R","S","T","U","V","W","X","Y","Z">>
LowerLetters == <<"a","b","c","d","e","f","g","h","i","j","k","l","m","n","o","p","q","r","s","t","u","v","w","x","y","z">>
DigitChars == <<"0","1","2","3","4","5","6","7","8","9">>
\* Punctuation of the strings the program builds, in collation order.
PunctChars == <<" ","-",",",".","/","%","$">>

Range(s) == {s[i] : i \in DOMAIN s}
AllChars == Range(UpperLetters) \cup Range(LowerLetters) \cup Range(DigitChars) \cup Range(PunctChars)

IndexOf(seq, c) == CHOOSE i \in DOMAIN seq : seq[i] = c

\* String.prototype.toLowerCase, per character
LowerOf == [c \in AllChars |->
              IF c \in Range(UpperLetters) THEN LowerLetters[IndexOf(UpperLetters, c)] ELSE c]

ToLowerCase(s) == [i \in 1..Len(s) |-> LowerOf[s[i]]]

\* String.prototype.includes
Includes(s, t) == \E i \in 1..(Len(s) - Len(t) + 1) : SubSeq(s, i, i + Len(t) - 1) = t

\* Collation weights used by String.prototype.localeCompare (root collation):
\* primary order is space < punctuation < digits < letters, letters without
\* regard to case; at equal primary weights lower case precedes upper case.
CollationOrder == PunctChars \o DigitChars \o LowerLetters
PrimaryWeight == [c \in AllChars |-> IndexOf(CollationOrder, LowerOf[c])]
CaseWeight == [c \in AllChars |-> IF c \in Range(UpperLetters) THEN 1 ELSE 0]

RECURSIVE CompareWeights(_, _, _, _)
CompareWeights(w, a, b, i) ==
    IF i > Len(a) /\ i > Len(b) THEN 0
    ELSE IF i > Len(a) THEN -1
    ELSE IF i > Len(b) THEN 1
    ELSE IF w[a[i]] < w[b[i]] THEN -1
    ELSE IF w[a[i]] > w[b[i]] THEN 1
    ELSE CompareWeights(w, a, b, i + 1)

\* a.localeCompare(b): negative, zero or positive
LocaleCompare(a, b) ==
    LET p == CompareWeights(PrimaryWeight, a, b, 1)
    IN  IF p # 0 THEN p ELSE CompareWeights(CaseWeight, a, b, 1)

\* String(n) for an integer n >= 0
RECURSIVE NatToString(_)
NatToString(n) ==
    IF n < 10 THEN <<DigitChars[n + 1]>>
    ELSE NatToString(n \div 10) \o <<DigitChars[(n % 10) + 1]>>

\* The decimal digits of n, padded with zeros on the left to width w
RECURSIVE PadDigits(_, _)
PadDigits(n, w) ==
    IF w = 0 THEN <<>> ELSE PadDigits(n \div 10, w - 1) \o <<DigitChars[(n % 10) + 1]>>

Pow10(d) == IF d = 0 THEN 1 ELSE IF d = 1 THEN 10 ELSE 100

\* (num / den).toFixed(d) for integers num, den with den >= 0 and d in 0..2.
\* Division by zero gives Infinity, -Infinity or NaN, which toFixed prints
\* by name. The quotient is rounded half away from zero.
ToFixed(num, den, d) ==
    IF den = 0 THEN
        IF num > 0 THEN <<"I","n","f","i","n","i","t","y">>
        ELSE IF num < 0 THEN <<"-","I","n","f","i","n","i","t","y">>
        ELSE <<"N","a","N">>
    ELSE
        LET a == Abs(num)
            whole == a \div den
            rest == a % den
            scaled == rest * Pow10(d)
            frac0 == scaled \div den
            up == IF 2 * (scaled % den) >= den THEN 1 ELSE 0
            frac1 == frac0 + up
            carry == IF frac1 >= Pow10(d) THEN 1 ELSE 0
            frac == IF carry = 1 THEN frac1 - Pow10(d) ELSE frac1
            sign == IF num < 0 THEN <<"-">> ELSE <<>>
        IN  sign \o NatToString(whole + carry)
                 \o (IF d = 0 THEN <<>> ELSE <<".">> \o PadDigits(frac, d))

\* value.toLocaleString() for an integer n >= 0 (en-US digit grouping)
RECURSIVE ToLocaleString(_)
ToLocaleString(n) ==
    IF n < 1000 THEN NatToString(n)
    ELSE ToLocaleString(n \div 1000) \o <<",">> \o PadDigits(n % 1000, 3)

\* Long division: the next k decimal digits of rest / den, as a number, and
\* the rest left after them
RECURSIVE DivideDigits(_, _, _, _)
DivideDigits(acc, rest, den, k) ==
    IF k = 0 THEN [digits |-> acc, rest |-> rest]
    ELSE DivideDigits(acc * 10 + (rest * 10) \div den, (rest * 10) % den, den, k - 1)

\* ((num / den) * 100).toFixed(1) for integers num, den with den >= 0; the
\* quotient is taken exactly and rounded half away from zero.
PercentToFixed1(num, den) ==
    IF den = 0 THEN
        IF num > 0 THEN <<"I","n","f","i","n","i","t","y">>
        ELSE IF num < 0 THEN <<"-","I","n","f","i","n","i","t","y">>
        ELSE <<"N","a","N">>
    ELSE
        LET a == Abs(num)
            d == DivideDigits(a \div den, a % den, den, 3)
            tenths == d.digits + (IF 2 * d.rest >= den THEN 1 ELSE 0)
            sign == IF num < 0 THEN <<"-">> ELSE <<>>
        IN  sign \o NatToString(tenths \div 10) \o <<".">> \o PadDigits(tenths % 10, 1)

(***************************************************************************)
(* Math.random                                                             *)
(***************************************************************************)
\* Math.random() takes the values 0/RandMod .. (RandMod-1)/RandMod.
RandMod == 16
\* The generator behind Math.random has RandStates internal states.
RandStates == 64
Seeds == 0..MaxSeed

\* The stream of generator states: a full-period linear congruential generator.
NextRandom(s) == (37 * s + 11) % RandStates

\* The numerator over RandMod of the value Math.random() returns in state s
RandomValue(s) == s \div (RandStates \div RandMod)

\* Math.floor(Math.random() * n) for the draw r
RandomInt(r, n) == (r * n) \div RandMod

(***************************************************************************)
(* Time and dates                                                          *)
(*                                                                         *)
(* The clock counts ticks of 100 ms. The host is in a zone with a fixed    *)
(* offset from UTC, so 'the same time i days earlier' (setDate) is         *)
(* i * DayTicks earlier. An ISO date string 'YYYY-MM-DD' is kept as the    *)
(* number of its UTC day.                                                  *)
(***************************************************************************)
TicksPerSecond == 10
DayTicks == 24 * 60 * 60 * TicksPerSecond

\* date.toISOString().split('T')[0]: the UTC day the instant t falls in
ToISODate(t) == t \div DayTicks

\* new Date('YYYY-MM-DD'): midnight UTC at the start of that day
ParseDate(date) == date * DayTicks

\* setTimeout delays
FetchDelayMs == 500
NavDelayMs == 300
FetchDelay == (FetchDelayMs * TicksPerSecond) \div 1000
NavDelay == (NavDelayMs * TicksPerSecond) \div 1000

(***************************************************************************)
(* generateMockMarketingData                                               *)
(***************************************************************************)
NumDays == 365

\* One daily record i days before today, from the six draws in the order the
\* code makes them. cpc = Math.random() * 2 + 0.5 is fractional: the field
\* holds its numerator over RandMod.
MakeDailyRecord(today, i, r1, r2, r3, r4, r5, r6) ==
    [ date |-> ToISODate(today - i * DayTicks),
      revenue |-> RandomInt(r1, 100000 - 50000 + 1) + 50000,
      users |-> RandomInt(r2, 5000 - 1000 + 1) + 1000,
      conversions |-> RandomInt(r3, 500 - 100 + 1) + 100,
      cpc |-> r4 * 2 + RandMod \div 2,
      impressions |-> RandomInt(r5, 500000 - 100000 + 1) + 100000,
      clicks |-> RandomInt(r6, 10000 - 1000 + 1) + 1000 ]

\* One pass of the loop body: data.push({...}), i--. The loop state carries
\* the generator state.
PushDay(loop, today) ==
    LET r1 == loop.random
        r2 == NextRandom(r1)
        r3 == NextRandom(r2)
        r4 == NextRandom(r3)
        r5 == NextRandom(r4)
        r6 == NextRandom(r5)
    IN  [ i |-> loop.i - 1,
          random |-> NextRandom(r6),
          data |-> Append(loop.data,
                          MakeDailyRecord(today, loop.i, RandomValue(r1), RandomValue(r2),
                                          RandomValue(r3), RandomValue(r4),
                                          RandomValue(r5), RandomValue(r6))) ]

\* At most n passes of the loop for (i = numDays - 1; i >= 0; i--)
RECURSIVE GenerateDaysPasses(_, _, _)
GenerateDaysPasses(loop, today, n) ==
    IF loop.i < 0 \/ n = 0 THEN loop
    ELSE GenerateDaysPasses(PushDay(loop, today), today, n - 1)

\* The whole loop, evaluated in runs of 20 passes
RECURSIVE GenerateDaysLoop(_, _)
GenerateDaysLoop(loop, today) ==
    IF loop.i < 0 THEN loop
    ELSE GenerateDaysLoop(GenerateDaysPasses(loop, today, 20), today)

generateMockMarketingData(numDays, r, today) ==
    GenerateDaysLoop([i |-> numDays - 1, random |-> r, data |-> <<>>], today)

(***************************************************************************)
(* generateMockCampaignData                                                *)
(***************************************************************************)
NumCampaigns == 15

campaignNames == <<
    <<"B","r","a","n","d"," ","A","w","a","r","e","n","e","s","s"," ","Q","1">>,
    <<"L","e","a","d"," ","G","e","n"," ","S","p","r","i","n","g">>,
    <<"H","o","l","i","d","a","y"," ","S","a","l","e","s"," ","B","o","o","s","t">>,
    <<"S","E","O"," ","C","o","n","t","e","n","t"," ","P","u","s","h">>,
    <<"S","o","c","i","a","l"," ","M","e","d","i","a"," ","B","l","i","t","z">> >>
statuses == <<
    <<"A","c","t","i","v","e">>,
    <<"P","a","u","s","e","d">>,
    <<"C","o","m","p","l","e","t","e","d">> >>
channels == <<
    <<"G","o","o","g","l","e"," ","A","d","s">>,
    <<"F","a","c","e","b","o","o","k"," ","A","d","s">>,
    <<"S","E","O">>,
    <<"E","m","a","i","l"," ","M","a","r","k","e","t","i","n","g">>,
    <<"C","o","n","t","e","n","t"," ","M","a","r","k","e","t","i","n","g">> >>

\* One campaign, from the seven draws r1..r7 in the order the code makes them.
\* revenueGenerated = conversions * (Math.random() * 150 + 50) is fractional:
\* the field holds its numerator over RandMod.
\* roi = ((revenueGenerated - spend) / spend * 100).toFixed(2) + '%', a string.
MakeCampaign(i, r1, r2, r3, r4, r5, r6, r7) ==
    LET budget == RandomInt(r1, 15000 - 2000 + 1) + 2000
        spend == RandomInt(r2, budget)
        conversions == RandomInt(r3, 500 - 20 + 1) + 20
        revenueGenerated == conversions * (r4 * (200 - 50) + 50 * RandMod)
        roi == ToFixed((revenueGenerated - spend * RandMod) * 100, spend * RandMod, 2)
    IN  [ id |-> i + 1,
          name |-> campaignNames[RandomInt(r5, Len(campaignNames)) + 1]
                     \o <<" ","-"," ">> \o NatToString(i + 1),
          status |-> statuses[RandomInt(r6, Len(statuses)) + 1],
          channel |-> channels[RandomInt(r7, Len(channels)) + 1],
          budget |-> budget,
          spend |-> spend,
          conversions |-> conversions,
          roi |-> roi \o <<"%">>,
          revenueGenerated |-> revenueGenerated ]

RECURSIVE GenerateCampaignsFrom(_, _, _)
GenerateCampaignsFrom(i, r, campaigns) ==
    IF i >= NumCampaigns THEN campaigns
    ELSE LET r1 == r
             r2 == NextRandom(r1)
             r3 == NextRandom(r2)
             r4 == NextRandom(r3)
             r5 == NextRandom(r4)
             r6 == NextRandom(r5)
             r7 == NextRandom(r6)
         IN  GenerateCampaignsFrom(i + 1, NextRandom(r7),
                 Append(campaigns,
                        MakeCampaign(i, RandomValue(r1), RandomValue(r2), RandomValue(r3),
                                     RandomValue(r4), RandomValue(r5), RandomValue(r6),
                                     RandomValue(r7))))

generateMockCampaignData(r) == GenerateCampaignsFrom(0, r, <<>>)

(***************************************************************************)
(* The data generated when the module loads                                *)
(***************************************************************************)
\* Instants at which the module may load: at noon UTC, and 200 ms before
\* midnight UTC, so that the first simulated fetch ends on the next UTC day.
LoadDay == 3 * NumDays
LoadTimes == { LoadDay * DayTicks + DayTicks \div 2,
               (LoadDay + 1) * DayTicks - 2 }

\* fullMarketingData and campaignData are generated once, one after the
\* other from the same random stream, and never assigned again: they are
\* determined by the generator state and the time of the load.
ModuleData ==
    [ s \in Seeds, t \in LoadTimes |->
        LET m == generateMockMarketingData(NumDays, s, t)
        IN  [ fullMarketingData |-> m.data,
              campaignData |-> generateMockCampaignData(m.random) ] ]

fullMarketingData == ModuleData[seed, loadTime].fullMarketingData
campaignData == ModuleData[seed, loadTime].campaignData

(***************************************************************************)
(* getFilteredData and the previous-period window                          *)
(*                                                                         *)
(* A window is an array of records of fullMarketingData: the model keeps   *)
(* the indexes of the records it refers to.                                *)
(***************************************************************************)
\* One year back (setFullYear(year - 1)) over a span without a leap day
DaysInYear == 365

\* startDate of getFilteredData, for today = new Date()
StartDate(range, today) ==
    CASE range = "last-7-days" -> today - 7 * DayTicks
      [] range = "last-30-days" -> today - 30 * DayTicks
      [] range = "last-90-days" -> today - 90 * DayTicks
      [] range = "last-year" -> today - DaysInYear * DayTicks
      [] OTHER -> today - 30 * DayTicks

\* data.filter(d => new Date(d.date) >= startDate)
getFilteredData(data, range, today) ==
    SelectSeq([i \in 1..Len(data) |-> i],
              LAMBDA i : ParseDate(data[i].date) >= StartDate(range, today))

\* durationDays of the timer callback of DashboardPage
DurationDays(range) ==
    CASE range = "last-7-days" -> 7
      [] range = "last-30-days" -> 30
      [] range = "last-90-days" -> 90
      [] range = "last-year" -> 365
      [] OTHER -> 30

\* fullMarketingData.filter(d => dDate >= startDatePrev && dDate < endDatePrev)
PreviousPeriod(data, range, today) ==
    LET endDatePrev == today - DurationDays(range) * DayTicks
        startDatePrev == today - (2 * DurationDays(range)) * DayTicks
    IN  SelectSeq([i \in 1..Len(data) |-> i],
                  LAMBDA i : /\ ParseDate(data[i].date) >= startDatePrev
                             /\ ParseDate(data[i].date) < endDatePrev)

(***************************************************************************)
(* getMetricValue                                                          *)
(*                                                                         *)
(* An argument is null/undefined or an array of daily records. The outcome *)
(* of a call is the object returned, or the exception thrown. The          *)
(* parameter prevPeriodData is prevWindow here.                            *)
(***************************************************************************)
JsNull == [kind |-> "null", items |-> <<>>]
JsArray(items) == [kind |-> "array", items |-> items]

MetricKeys == {"revenue", "users", "conversions", "cpc", "impressions", "clicks"}

NotAvailable == <<"N","/","A">>

Returned(value, change, type, vsPrev) ==
    [threw |-> "none", value |-> value, change |-> change, type |-> type, vsPrev |-> vsPrev]
Thrown(error) ==
    [threw |-> error, value |-> <<>>, change |-> <<>>, type |-> "none", vsPrev |-> <<>>]

\* items.reduce((sum, d) => sum + d[key], 0) over the first n items. The
\* fields are integers, whose sum does not depend on the grouping: the
\* items are added in halves, so that a year of records is summed in few
\* nested steps.
RECURSIVE SumBetween(_, _, _, _)
SumBetween(items, key, first, last) ==
    IF first > last THEN 0
    ELSE IF first = last THEN items[first][key]
    ELSE LET middle == (first + last) \div 2
         IN  SumBetween(items, key, first, middle) + SumBetween(items, key, middle + 1, last)

SumOf(items, key, n) == SumBetween(items, key, 1, n)

\* A faulty variant of the comparison: the previous sum is the base for
\* every key, cpc included.
VsPrevOfAgainstSum(key, currentSum, latestValue, prevWindow) ==
    IF prevWindow.kind = "array" /\ Len(prevWindow.items) > 0
    THEN LET prev == prevWindow.items
             comparisonValue == SumOf(prev, key, Len(prev))
             currentValue == IF key = "cpc" THEN latestValue ELSE currentSum
         IN  PercentToFixed1(currentValue - comparisonValue, comparisonValue)
                \o <<"%"," ","v","s","."," ","P","r","e","v">>
    ELSE NotAvailable

\* The vsPrev text: 'N/A' unless the previous window is a non-empty array
VsPrevOf(key, currentSum, latestValue, prevWindow) ==
    IF prevWindow.kind = "array" /\ Len(prevWindow.items) > 0
    THEN LET prev == prevWindow.items
             prevSum == SumOf(prev, key, Len(prev))
             prevLatestValue == prev[Len(prev)][key]
             comparisonValue == IF key = "cpc" THEN prevLatestValue ELSE prevSum
             currentValue == IF key = "cpc" THEN latestValue ELSE currentSum
         IN  PercentToFixed1(currentValue - comparisonValue, comparisonValue)
                \o <<"%"," ","v","s","."," ","P","r","e","v">>
    ELSE NotAvailable

\* A faulty variant of the body: the change within the window is taken
\* between the sum of the window and its first value.
MetricSummaryChangeOfSum(items, key, prevWindow) ==
    IF Len(items) = 0 THEN Thrown("TypeError")
    ELSE
        LET currentSum == SumOf(items, key, Len(items))
            latestValue == items[Len(items)][key]
            displayValue ==
                IF key = "revenue" THEN <<"$">> \o ToLocaleString(currentSum)
                ELSE IF key = "cpc" THEN <<"$">> \o ToFixed(latestValue, RandMod, 2)
                ELSE ToLocaleString(currentSum)
            firstValue == items[1][key]
            nonNegative == IF firstValue = 0 THEN currentSum > 0
                                             ELSE currentSum - firstValue >= 0
        IN  Returned(displayValue,
                     PercentToFixed1(currentSum - firstValue, firstValue) \o <<"%">>,
                     IF nonNegative THEN "positive" ELSE "negative",
                     VsPrevOf(key, currentSum, latestValue, prevWindow))

\* The body after the guard, for an array: data[data.length - 1][key] reads a
\* property of undefined when the array is empty, which throws a TypeError.
\* cpc is a numerator over RandMod; the other fields are integers.
MetricSummary(items, key, prevWindow) ==
    IF Len(items) = 0 THEN Thrown("TypeError")
    ELSE
        LET currentSum == SumOf(items, key, Len(items))
            latestValue == items[Len(items)][key]
            displayValue ==
                IF key = "revenue" THEN <<"$">> \o ToLocaleString(currentSum)
                ELSE IF key = "cpc" THEN <<"$">> \o ToFixed(latestValue, RandMod, 2)
                ELSE ToLocaleString(currentSum)
            firstValue == items[1][key]
            \* currentPeriodChange >= 0; a NaN compares false
            nonNegative == IF firstValue = 0 THEN latestValue > 0
                                             ELSE latestValue - firstValue >= 0
        IN  Returned(displayValue,
                     PercentToFixed1(latestValue - firstValue, firstValue) \o <<"%">>,
                     IF nonNegative THEN "positive" ELSE "negative",
                     VsPrevOf(key, currentSum, latestValue, prevWindow))

\* A faulty variant of the guard: only a missing window is caught, not an
\* empty one.
getMetricValueCheckingMissingOnly(data, key, prevWindow) ==
    IF data.kind = "null"
    THEN Returned(NotAvailable, NotAvailable, "neutral", NotAvailable)
    ELSE MetricSummary(data.items, key, prevWindow)

getMetricValue(data, key, prevWindow) ==
    IF data.kind = "null" \/ Len(data.items) = 0
    THEN Returned(NotAvailable, NotAvailable, "neutral", NotAvailable)
    ELSE MetricSummary(data.items, key, prevWindow)

\* Windows handed to getMetricValue: a missing one, short arrays of sample
\* records (zero values included), the last two weeks of the series, and a
\* week of rising values.
SampleRecord(v) ==
    [ date |-> 0, revenue |-> v, users |-> 2 * v, conversions |-> 3 * v,
      cpc |-> 5 * v, impressions |-> 7 * v, clicks |-> 11 * v ]
SampleRecords == {SampleRecord(v) : v \in 0..MaxMetricValue}
RecordsAt(window) == [k \in DOMAIN window |-> fullMarketingData[window[k]]]
\* A week whose daily revenues run 130, 140, .. 190
RisingWindow == JsArray([k \in 1..7 |-> SampleRecord(120 + 10 * k)])
SampleWindows ==
    {JsNull}
      \cup {JsArray(items) : items \in UNION {[1..n -> SampleRecords] : n \in 0..MaxWindowLen}}
      \cup {JsArray(RecordsAt([k \in 1..7 |-> NumDays - 7 + k])),
            JsArray(RecordsAt([k \in 1..7 |-> NumDays - 14 + k])),
            RisingWindow}

NoOutcome == Thrown("not called")

\* A call getMetricValue(data, key, prevPeriodData)
CallGetMetricValue ==
    /\ metricOutcome = NoOutcome
    /\ metricOutcome' = getMetricValue(metricData, metricKey, metricPrev)
    /\ UNCHANGED <<envVars, inputVars, moduleVars, now, timers, appVars, fetchVars, tableVars,
                   metricData, metricKey, metricPrev, chartVars, goalVars, themeVars>>

(***************************************************************************)
(* Numbers of the chart geometry                                           *)
(*                                                                         *)
(* A JavaScript number computed by the chart components is an exact        *)
(* fraction num / den (den > 0), or NaN, Infinity or -Infinity: the        *)
(* rounding of floating point is left out, division by zero is not.        *)
(***************************************************************************)
JsNumber(num, den) == [kind |-> "number", num |-> num, den |-> den]
NaN == [kind |-> "NaN", num |-> 0, den |-> 1]
PlusInfinity == [kind |-> "Infinity", num |-> 1, den |-> 1]
MinusInfinity == [kind |-> "-Infinity", num |-> -1, den |-> 1]

\* a / b for integers a, b
Divide(a, b) ==
    IF b = 0 THEN (IF a > 0 THEN PlusInfinity ELSE IF a < 0 THEN MinusInfinity ELSE NaN)
    ELSE IF b < 0 THEN JsNumber(-a, -b)
    ELSE JsNumber(a, b)

\* x * m + c for a number x and integers m, c
Affine(x, m, c) ==
    IF x.kind = "number" THEN JsNumber(x.num * m + c * x.den, x.den)
    ELSE IF x.kind = "NaN" \/ m = 0 THEN NaN
    ELSE IF (x.kind = "Infinity") = (m > 0) THEN PlusInfinity
    ELSE MinusInfinity

\* x / k for a number x and an integer k > 0
DivideBy(x, k) == IF x.kind = "number" THEN JsNumber(x.num, x.den * k) ELSE x

\* x + y
Plus(x, y) ==
    IF x.kind = "number" /\ y.kind = "number" THEN
        IF x.den = y.den THEN JsNumber(x.num + y.num, x.den)
        ELSE JsNumber(x.num * y.den + y.num * x.den, x.den * y.den)
    ELSE IF x.kind = "NaN" \/ y.kind = "NaN" THEN NaN
    ELSE IF x.kind = "number" THEN y
    ELSE IF y.kind = "number" \/ x.kind = y.kind THEN x
    ELSE NaN

\* x > k for a number x and an integer k; false for NaN
GreaterThan(x, k) ==
    \/ x.kind = "Infinity"
    \/ (x.kind = "number" /\ x.num > k * x.den)

(***************************************************************************)
(* Chart components: LineChartMock, BarChartMock, PieChartMock,            *)
(* ConversionFunnelMock                                                    *)
(*                                                                         *)
(* What a component renders: the loading skeleton, a message, or an svg of *)
(* the given width with its shapes (and the legend texts of the pie).      *)
(***************************************************************************)
Rendered(component, shows, width, shapes, labels) ==
    [ component |-> component, shows |-> shows, threw |-> "none",
      width |-> width, shapes |-> shapes, labels |-> labels ]
ChartThrown(component, error) ==
    [ component |-> component, shows |-> "nothing", threw |-> error,
      width |-> 0, shapes |-> <<>>, labels |-> <<>> ]
ChartSkeleton(component) == Rendered(component, "skeleton", 0, <<>>, <<>>)
NoDataForChart(component) == Rendered(component, "no data", 0, <<>>, <<>>)

\* Math.max(...values), Math.min(...values) of a non-empty array
MathMax(values) == CHOOSE v \in Range(values) : \A w \in Range(values) : w <= v
MathMin(values) == CHOOSE v \in Range(values) : \A w \in Range(values) : v <= w

\* The svg of LineChartMock for an array. With no rows the axis label
\* data[0][xAxisKey] reads a property of undefined: a TypeError.
LinePolyline(items, xAxisKey, yAxisKey) ==
    IF Len(items) = 0 THEN ChartThrown("line", "TypeError")
    ELSE
        LET values == [i \in DOMAIN items |-> items[i][yAxisKey]]
            maxVal == MathMax(values)
            minVal == MathMin(values)
            normalize(val) == Affine(Divide(val - minVal, maxVal - minVal), 80, 10)
            points == [i \in DOMAIN items |->
                         [ x |-> Affine(Divide(i - 1, Len(items) - 1), 280, 10),
                           y |-> Affine(normalize(items[i][yAxisKey]), -1, 100) ]]
        IN  Rendered("line", "chart", 300, points, <<>>)

\* A faulty variant of the component: only a missing array is caught by the
\* guard, not an empty one.
LineChartMockCheckingMissingOnly(data, xAxisKey, yAxisKey, loading) ==
    IF loading THEN ChartSkeleton("line")
    ELSE IF data.kind = "null" THEN NoDataForChart("line")
    ELSE LinePolyline(data.items, xAxisKey, yAxisKey)

LineChartMock(data, xAxisKey, yAxisKey, loading) ==
    IF loading THEN ChartSkeleton("line")
    ELSE IF data.kind = "null" \/ Len(data.items) = 0 THEN NoDataForChart("line")
    ELSE LinePolyline(data.items, xAxisKey, yAxisKey)

barWidth == 20
gap == 10

\* The svg of BarChartMock for an array
BarRects(items, xAxisKey, yAxisKey) ==
    LET values == [i \in DOMAIN items |-> items[i][yAxisKey]]
        totalWidth == Len(items) * (barWidth + gap)
        svgWidth == Max(300, totalWidth)
        bars == [i \in DOMAIN items |->
                   LET barHeight == Affine(Divide(items[i][yAxisKey], MathMax(values)), 100, 0)
                   IN  [ x |-> (i - 1) * (barWidth + gap) + 10,
                         y |-> Affine(barHeight, -1, 140),
                         width |-> barWidth,
                         height |-> barHeight ]]
    IN  Rendered("bar", "chart", svgWidth, bars, <<>>)

BarChartMock(data, xAxisKey, yAxisKey, loading) ==
    IF loading THEN ChartSkeleton("bar")
    ELSE IF data.kind = "null" \/ Len(data.items) = 0 THEN NoDataForChart("bar")
    ELSE BarRects(data.items, xAxisKey, yAxisKey)

\* The palette of PieChartMock has 8 colors
NumColors == 8

\* A faulty variant of the step: the next slice starts at the angle of this
\* one instead of where it ended.
NextStartAngleNotAdded(startAngle, angle) == angle

\* startAngle += angle
NextStartAngle(startAngle, angle) == Plus(startAngle, angle)

\* data.map((d, i) => renderSlice(d[valueKey], i)): the slices in order, each
\* from the running startAngle. The end points of an arc are kept as their
\* angles in degrees (x = 75 + 50 cos, y = 75 + 50 sin of the angle).
RECURSIVE RenderSlices(_, _, _, _, _, _)
RenderSlices(items, valueKey, total, i, startAngle, slices) ==
    IF i > Len(items) THEN slices
    ELSE LET angle == Affine(Divide(items[i][valueKey], total), 360, 0)
             largeArcFlag == IF GreaterThan(angle, 180) THEN 1 ELSE 0
             endAngle == NextStartAngle(startAngle, angle)
         IN  RenderSlices(items, valueKey, total, i + 1, endAngle,
                 Append(slices, [ startAngle |-> startAngle,
                                  angle |-> angle,
                                  endAngle |-> endAngle,
                                  largeArcFlag |-> largeArcFlag,
                                  fill |-> (i - 1) % NumColors ]))

\* The svg and the legend of PieChartMock for an array of non-negative values
PieSlices(items, valueKey, labelKey) ==
    LET total == SumOf(items, valueKey, Len(items))
        legend == [i \in DOMAIN items |->
                     [ label |-> items[i][labelKey],
                       percent |-> PercentToFixed1(items[i][valueKey], total) \o <<"%">> ]]
    IN  Rendered("pie", "chart", 150,
                 RenderSlices(items, valueKey, total, 1, JsNumber(0, 1), <<>>), legend)

PieChartMock(data, valueKey, labelKey, loading) ==
    IF loading THEN ChartSkeleton("pie")
    ELSE IF data.kind = "null" \/ Len(data.items) = 0 THEN NoDataForChart("pie")
    ELSE PieSlices(data.items, valueKey, labelKey)

funnelHeight == 150
funnelWidth == 200
topWidth == 150

\* A faulty variant of the ratio: the top edge takes the stage's own ratio.
PrevRatioOfOwnStage(stages, i, maxVal) == Divide(stages[i].value, maxVal)

\* prevRatio of stage i (1-based here): i > 0 ? stages[i-1].value / maxVal : 1
PrevRatio(stages, i, maxVal) ==
    IF i > 1 THEN Divide(stages[i - 1].value, maxVal) ELSE JsNumber(1, 1)

\* The svg of ConversionFunnelMock for an array. With no stages
\* stages[0].value reads a property of undefined: a TypeError.
FunnelPolygons(stages) ==
    IF Len(stages) = 0 THEN ChartThrown("funnel", "TypeError")
    ELSE
        LET maxVal == stages[1].value
            polygons == [i \in DOMAIN stages |->
                LET currentRatio == Divide(stages[i].value, maxVal)
                    widthTop == Affine(PrevRatio(stages, i, maxVal), topWidth, 0)
                    widthBottom == Affine(currentRatio, topWidth, 0)
                IN  [ widthTop |-> widthTop,
                      widthBottom |-> widthBottom,
                      x1 |-> DivideBy(Affine(widthTop, -1, funnelWidth), 2),
                      x2 |-> DivideBy(Affine(widthTop, 1, funnelWidth), 2),
                      x3 |-> DivideBy(Affine(widthBottom, 1, funnelWidth), 2),
                      x4 |-> DivideBy(Affine(widthBottom, -1, funnelWidth), 2),
                      yTop |-> Divide((i - 1) * funnelHeight, Len(stages)),
                      yBottom |-> Divide(i * funnelHeight, Len(stages)) ]]
        IN  Rendered("funnel", "chart", funnelWidth, polygons, <<>>)

ConversionFunnelMock(stages, loading) ==
    IF loading THEN ChartSkeleton("funnel")
    ELSE IF stages.kind = "null" \/ Len(stages.items) < 2
         THEN Rendered("funnel", "not enough data", 0, <<>>, <<>>)
    ELSE FunnelPolygons(stages.items)

\* Inputs of the chart components: a missing array, short arrays of rows with
\* small values (zero and equal values included), and arrays the pages pass.
RowsOf(values) == [i \in DOMAIN values |-> [name |-> i, value |-> values[i]]]
ChartInputs ==
    {JsNull}
      \cup {JsArray(RowsOf(values)) :
               values \in UNION {[1..n -> 0..MaxChartValue] : n \in 0..MaxChartLen}}
      \cup {JsArray(RowsOf(<<30, 70>>)),
            JsArray(RowsOf(<<300, 250, 150, 100, 50>>)),
            JsArray(RowsOf(<<500000, 10000, 1000, 100>>))}

NotRendered == Rendered("none", "nothing", 0, <<>>, <<>>)

\* A render of each chart component with the props data (stages) and loading
RenderLineChart ==
    /\ chartOutcome = NotRendered
    /\ chartOutcome' = LineChartMock(chartData, "name", "value", chartLoading)
    /\ UNCHANGED <<envVars, inputVars, moduleVars, callVars, goalVars, themeVars, now, timers, appVars,
                   fetchVars, tableVars, chartData, chartLoading>>

RenderBarChart ==
    /\ chartOutcome = NotRendered
    /\ chartOutcome' = BarChartMock(chartData, "name", "value", chartLoading)
    /\ UNCHANGED <<envVars, inputVars, moduleVars, callVars, goalVars, themeVars, now, timers, appVars,
                   fetchVars, tableVars, chartData, chartLoading>>

RenderPieChart ==
    /\ chartOutcome = NotRendered
    /\ chartOutcome' = PieChartMock(chartData, "value", "name", chartLoading)
    /\ UNCHANGED <<envVars, inputVars, moduleVars, callVars, goalVars, themeVars, now, timers, appVars,
                   fetchVars, tableVars, chartData, chartLoading>>

RenderFunnel ==
    /\ chartOutcome = NotRendered
    /\ chartOutcome' = ConversionFunnelMock(chartData, chartLoading)
    /\ UNCHANGED <<envVars, inputVars, moduleVars, callVars, goalVars, themeVars, now, timers, appVars,
                   fetchVars, tableVars, chartData, chartLoading>>

(***************************************************************************)
(* ProgressBar                                                             *)
(***************************************************************************)
\* Math.min(100, x)
MathMin100(x) ==
    IF x.kind = "NaN" THEN NaN
    ELSE IF GreaterThan(x, 100) THEN JsNumber(100, 1)
    ELSE x

\* A faulty variant of the component: the percentage is not capped.
ProgressBarNotCapped(current, target) ==
    [ rendered |-> TRUE,
      progress |-> Affine(Divide(current, target), 100, 0),
      isComplete |-> current >= target ]

\* progress and isComplete of ProgressBar, for integer current and target
ProgressBar(current, target) ==
    [ rendered |-> TRUE,
      progress |-> MathMin100(Affine(Divide(current, target), 100, 0)),
      isComplete |-> current >= target ]

GoalNotRendered == [rendered |-> FALSE, progress |-> NaN, isComplete |-> FALSE]

\* A render of ProgressBar with the prop current
RenderProgressBar(current) ==
    /\ goalCurrent' = current
    /\ goalOutcome' = ProgressBar(current, goalTarget)
    /\ UNCHANGED <<envVars, inputVars, moduleVars, callVars, chartVars, themeVars, now, timers, appVars,
                   fetchVars, tableVars, goalTarget>>

(***************************************************************************)
(* ThemeProvider and ThemeToggle                                           *)
(***************************************************************************)
\* Values of the localStorage item 'theme' at startup: absent, empty, the
\* values the app writes, and a value written by something else.
StoredThemes == {"null", "", "light", "dark", "system", "blue"}

\* The useState initializer (defaultTheme = 'system', enableSystem); an
\* absent item and the empty string are falsy
InitialTheme(stored, dark) ==
    IF stored \notin {"null", ""} THEN stored
    ELSE IF dark THEN "dark"
    ELSE "system"

\* The classList of the root element after the effect: 'light' and 'dark'
\* removed, the class of the theme added
ClassesAfterEffect(classes, t, dark) ==
    (classes \ {"light", "dark"})
        \cup {IF t = "system" THEN (IF dark THEN "dark" ELSE "light") ELSE t}

\* The first render of ThemeProvider and its effect
ThemeProviderMount ==
    /\ theme = "unmounted"
    /\ theme' = InitialTheme(storedTheme, prefersDark)
    /\ rootClasses' = ClassesAfterEffect(rootClasses, theme', prefersDark)
    /\ storedTheme' = theme'
    /\ UNCHANGED <<envVars, inputVars, moduleVars, callVars, chartVars, goalVars, now, timers, appVars,
                   fetchVars, tableVars, prefersDark>>

\* A faulty variant of the handler: the state changes, the effect does not
\* run.
toggleThemeWithoutEffect ==
    /\ theme # "unmounted"
    /\ theme' = (IF theme = "light" THEN "dark" ELSE "light")
    /\ UNCHANGED <<envVars, inputVars, moduleVars, callVars, chartVars, goalVars, now, timers, appVars,
                   fetchVars, tableVars, prefersDark, rootClasses, storedTheme>>

\* ThemeToggle onClick: setTheme(theme === 'light' ? 'dark' : 'light'), and
\* the effect on [theme]
toggleTheme ==
    /\ theme # "unmounted"
    /\ theme' = (IF theme = "light" THEN "dark" ELSE "light")
    /\ rootClasses' = ClassesAfterEffect(rootClasses, theme', prefersDark)
    /\ storedTheme' = theme'
    /\ UNCHANGED <<envVars, inputVars, moduleVars, callVars, chartVars, goalVars, now, timers, appVars,
                   fetchVars, tableVars, prefersDark>>

\* The system switches between its light and dark color scheme
SystemSchemeChange ==
    /\ prefersDark' = ~prefersDark
    /\ UNCHANGED <<envVars, inputVars, moduleVars, callVars, chartVars, goalVars, now, timers, appVars,
                   fetchVars, tableVars, theme, storedTheme, rootClasses>>

(***************************************************************************)
(* DashboardPage: the campaign table (filter, sort, paginate)              *)
(***************************************************************************)
itemsPerPage == 5

\* The sortable column headers of the table.
SortableColumns == {"name", "status", "channel", "budget", "spend",
                    "conversions", "revenueGenerated", "roi"}

\* typeof campaign[column], as generateMockCampaignData builds the fields:
\* roi is the string produced by toFixed(2) followed by '%'.
TypeOfField(column) ==
    IF column \in {"name", "status", "channel", "roi"} THEN "string" ELSE "number"

\* A faulty variant of the predicate: the text is compared as typed, without
\* lower-casing it.
MatchesFilterTextAsTyped(campaign, text) ==
    \/ Includes(ToLowerCase(campaign.name), text)
    \/ Includes(ToLowerCase(campaign.status), text)
    \/ Includes(ToLowerCase(campaign.channel), text)

\* The predicate of campaignData.filter
MatchesFilter(campaign, text) ==
    \/ Includes(ToLowerCase(campaign.name), ToLowerCase(text))
    \/ Includes(ToLowerCase(campaign.status), ToLowerCase(text))
    \/ Includes(ToLowerCase(campaign.channel), ToLowerCase(text))

\* Array.prototype.filter keeps the matching elements in their order.
FilterCampaigns(campaigns, text) ==
    SelectSeq(campaigns, LAMBDA c : MatchesFilter(c, text))

\* The comparator handed to sort: negative, zero or positive
CompareCampaigns(a, b, column, direction) ==
    IF column = "null" THEN 0
    ELSE IF TypeOfField(column) = "string" THEN
        IF direction = "asc" THEN LocaleCompare(a[column], b[column])
                             ELSE LocaleCompare(b[column], a[column])
    ELSE
        IF direction = "asc" THEN a[column] - b[column]
                             ELSE b[column] - a[column]

\* A faulty variant of the insertion: the element also moves left past the
\* elements that compare equal to it, which makes the sort unstable.
RECURSIVE InsertSortedPastEqual(_, _, _, _, _)
InsertSortedPastEqual(sorted, x, j, column, direction) ==
    IF j = 0 \/ CompareCampaigns(sorted[j], x, column, direction) < 0
    THEN SubSeq(sorted, 1, j) \o <<x>> \o SubSeq(sorted, j + 1, Len(sorted))
    ELSE InsertSortedPastEqual(sorted, x, j - 1, column, direction)

\* Array.prototype.sort is a stable sort; for arrays this short the engine
\* runs an insertion sort: each element moves left past the elements that
\* compare greater than it.
RECURSIVE InsertSorted(_, _, _, _, _)
InsertSorted(sorted, x, j, column, direction) ==
    IF j = 0 \/ CompareCampaigns(sorted[j], x, column, direction) <= 0
    THEN SubSeq(sorted, 1, j) \o <<x>> \o SubSeq(sorted, j + 1, Len(sorted))
    ELSE InsertSorted(sorted, x, j - 1, column, direction)

RECURSIVE SortFrom(_, _, _, _, _)
SortFrom(rows, i, sorted, column, direction) ==
    IF i > Len(rows) THEN sorted
    ELSE SortFrom(rows, i + 1,
                  InsertSorted(sorted, rows[i], Len(sorted), column, direction),
                  column, direction)

SortCampaigns(rows, column, direction) == SortFrom(rows, 1, <<>>, column, direction)

\* Array.prototype.slice(start, end): a negative index counts from the end,
\* both are clamped to the array.
ArraySlice(arr, start, end) ==
    LET from == IF start < 0 THEN Max(Len(arr) + start, 0) ELSE Min(start, Len(arr))
        to == IF end < 0 THEN Max(Len(arr) + end, 0) ELSE Min(end, Len(arr))
    IN  SubSeq(arr, from + 1, to)

\* A faulty variant of the slice: every page starts one row late.
PaginateFromNextRow(rows, page) ==
    ArraySlice(rows, (page - 1) * itemsPerPage + 1, page * itemsPerPage)

\* sortedCampaigns.slice((page - 1) * itemsPerPage, page * itemsPerPage)
Paginate(rows, page) == ArraySlice(rows, (page - 1) * itemsPerPage, page * itemsPerPage)

\* Math.ceil(rows.length / itemsPerPage)
TotalPagesOf(rows) == MathCeilDiv(Len(rows), itemsPerPage)

\* The values DashboardPage derives on every render
filteredCampaigns == FilterCampaigns(campaignStore, filterText)
sortedCampaigns == SortCampaigns(filteredCampaigns, sortColumn, sortDirection)
totalPages == TotalPagesOf(sortedCampaigns)
paginatedCampaigns == Paginate(sortedCampaigns, currentPage)

\* A faulty variant of the render: campaignData.sort(...) reorders the
\* module's array itself, and the rows are filtered from it afterwards.
RenderTableSortingInPlace(campaigns, text, column, direction, page) ==
    LET sorted == SortCampaigns(campaigns, column, direction)
        filtered == FilterCampaigns(sorted, text)
    IN  [ campaignData |-> sorted,
          filteredCampaigns |-> filtered,
          sortedCampaigns |-> filtered,
          paginatedCampaigns |-> Paginate(filtered, page) ]

\* The arrays of one render of the table. filter() builds a new array and
\* leaves its receiver as it is; the spread copies the new array; sort()
\* reorders that copy in place and returns it; slice() builds a new array.
\* campaignData is what the module's array holds after the render.
RenderTable(campaigns, text, column, direction, page) ==
    LET filtered == FilterCampaigns(campaigns, text)
        copy == filtered
        sorted == SortCampaigns(copy, column, direction)
    IN  [ campaignData |-> campaigns,
          filteredCampaigns |-> filtered,
          sortedCampaigns |-> sorted,
          paginatedCampaigns |-> Paginate(sorted, page) ]

\* Texts typed into the filter input: empty, the end of two statuses, a
\* status in lower case, a channel in upper case, parts of names, a text
\* nothing contains.
FilterTexts == { <<>>,
                 <<"e","d">>,
                 <<"p","a","u","s","e","d">>,
                 <<"A","D","S">>,
                 <<"S","E","O">>,
                 <<"-"," ","1">>,
                 <<"z","z","z">> }

\* A faulty variant of the handler: setCurrentPage(1) is left out.
FilterChangeKeepingPage(text) ==
    /\ activePage = "dashboard"
    /\ text # filterText
    /\ filterText' = text
    /\ UNCHANGED <<envVars, inputVars, callVars, chartVars, goalVars, themeVars, now, timers, appVars, fetchVars, currentPage, sortColumn, sortDirection>>
    /\ campaignStore' = RenderTable(campaignStore, filterText', sortColumn',
                                    sortDirection', currentPage').campaignData

\* Input onChange: setFilterText(e.target.value); setCurrentPage(1)
FilterChange(text) ==
    /\ activePage = "dashboard"
    /\ text # filterText
    /\ filterText' = text
    /\ currentPage' = 1
    /\ UNCHANGED <<envVars, inputVars, callVars, chartVars, goalVars, themeVars, now, timers, appVars, fetchVars, sortColumn, sortDirection>>
    /\ campaignStore' = RenderTable(campaignStore, filterText', sortColumn',
                                    sortDirection', currentPage').campaignData

\* A faulty variant of the handler: a new column keeps the direction.
handleSortKeepingDirection(column) ==
    /\ activePage = "dashboard"
    /\ IF sortColumn = column
       THEN /\ sortDirection' = (IF sortDirection = "asc" THEN "desc" ELSE "asc")
            /\ UNCHANGED sortColumn
       ELSE /\ sortColumn' = column
            /\ UNCHANGED sortDirection
    /\ UNCHANGED <<envVars, inputVars, callVars, chartVars, goalVars, themeVars, now, timers, appVars, fetchVars, filterText, currentPage>>
    /\ campaignStore' = RenderTable(campaignStore, filterText', sortColumn',
                                    sortDirection', currentPage').campaignData

\* handleSort(column)
handleSort(column) ==
    /\ activePage = "dashboard"
    /\ IF sortColumn = column
       THEN /\ sortDirection' = (IF sortDirection = "asc" THEN "desc" ELSE "asc")
            /\ UNCHANGED sortColumn
       ELSE /\ sortColumn' = column
            /\ sortDirection' = "asc"
    /\ UNCHANGED <<envVars, inputVars, callVars, chartVars, goalVars, themeVars, now, timers, appVars, fetchVars, filterText, currentPage>>
    /\ campaignStore' = RenderTable(campaignStore, filterText', sortColumn',
                                    sortDirection', currentPage').campaignData

\* The Previous button: disabled when currentPage === 1
PreviousPage ==
    /\ activePage = "dashboard"
    /\ currentPage # 1
    /\ currentPage' = Max(1, currentPage - 1)
    /\ UNCHANGED <<envVars, inputVars, callVars, chartVars, goalVars, themeVars, now, timers, appVars, fetchVars, filterText, sortColumn, sortDirection>>
    /\ campaignStore' = RenderTable(campaignStore, filterText', sortColumn',
                                    sortDirection', currentPage').campaignData

\* The Next button: disabled when currentPage === totalPages
NextPage ==
    /\ activePage = "dashboard"
    /\ currentPage # totalPages
    /\ currentPage' = Min(totalPages, currentPage + 1)
    /\ UNCHANGED <<envVars, inputVars, callVars, chartVars, goalVars, themeVars, now, timers, appVars, fetchVars, filterText, sortColumn, sortDirection>>
    /\ campaignStore' = RenderTable(campaignStore, filterText', sortColumn',
                                    sortDirection', currentPage').campaignData

(***************************************************************************)
(* Timers                                                                  *)
(***************************************************************************)
FetchTimer(page, range) == [kind |-> "fetch", due |-> now + FetchDelay, page |-> page, range |-> range]
NavTimer(pageName) == [kind |-> "nav", due |-> now + NavDelay, page |-> pageName, range |-> "none"]

\* A faulty variant of the cleanup: the timer is left pending.
clearTimeoutLeavingTimer(ts, page) == ts

\* clearTimeout(timer) in the cleanup of the effect of the page: the timer
\* the effect of that page set last is removed.
clearTimeout(ts, page) ==
    LET mine == {k \in DOMAIN ts : ts[k].kind = "fetch" /\ ts[k].page = page}
    IN  IF mine = {} THEN ts
        ELSE LET last == CHOOSE k \in mine : \A j \in mine : j <= k
             IN  SubSeq(ts, 1, last - 1) \o SubSeq(ts, last + 1, Len(ts))

\* The timer the event loop runs next: due, and first by due time, then by
\* the order in which the timers were set. 0 when none is due.
NextDue ==
    LET due == {k \in DOMAIN timers : timers[k].due <= now}
    IN  IF due = {} THEN 0
        ELSE CHOOSE k \in due :
                \A j \in due : \/ timers[j].due > timers[k].due
                               \/ (timers[j].due = timers[k].due /\ j >= k)

Without(ts, k) == SubSeq(ts, 1, k - 1) \o SubSeq(ts, k + 1, Len(ts))

(***************************************************************************)
(* DashboardPage and ReportsPage: date range and simulated fetch           *)
(***************************************************************************)
Pages == {"dashboard", "reports"}
DateRanges == {"last-7-days", "last-30-days", "last-90-days", "last-year"}

\* A faulty variant of the mount: the view state of the table outlives the
\* page.
MountPageKeepingView(page, ts) ==
    /\ dateRange' = "last-30-days"
    /\ loadingData' = TRUE
    /\ currentPeriodData' = <<>>
    /\ prevPeriodData' = <<>>
    /\ UNCHANGED <<filterText, currentPage, sortColumn, sortDirection>>
    /\ timers' = Append(ts, FetchTimer(page, "last-30-days"))

\* useState initial values of a page and the first run of its effect
MountPage(page, ts) ==
    /\ dateRange' = "last-30-days"
    /\ loadingData' = TRUE
    /\ currentPeriodData' = <<>>
    /\ prevPeriodData' = <<>>
    /\ filterText' = <<>>
    /\ currentPage' = 1
    /\ sortColumn' = "null"
    /\ sortDirection' = "asc"
    /\ timers' = Append(ts, FetchTimer(page, "last-30-days"))

\* DateRangeSelector onSelectRange = setDateRange; the effect on [dateRange]
\* runs its cleanup, then setLoadingData(true) and sets a new timer.
SetDateRange(range) ==
    /\ range # dateRange
    /\ dateRange' = range
    /\ loadingData' = TRUE
    /\ timers' = Append(clearTimeout(timers, activePage), FetchTimer(activePage, range))
    /\ UNCHANGED <<envVars, inputVars, moduleVars, callVars, chartVars, goalVars, themeVars, now, appVars, currentPeriodData, prevPeriodData, tableVars>>

\* The callback of the effect's timer. dateRange in the callback is the
\* value the effect ran with. A callback of a page that is no longer
\* mounted sets state of an unmounted component, which has no effect.
FetchTimerFire ==
    /\ NextDue # 0
    /\ LET k == NextDue
           t == timers[k]
       IN  /\ t.kind = "fetch"
           /\ timers' = Without(timers, k)
           /\ IF t.page = activePage
              THEN /\ currentPeriodData' = getFilteredData(fullMarketingData, t.range, now)
                   /\ prevPeriodData' =
                        (IF t.page = "dashboard"
                         THEN PreviousPeriod(fullMarketingData, t.range, now)
                         ELSE prevPeriodData)
                   /\ loadingData' = FALSE
              ELSE UNCHANGED <<currentPeriodData, prevPeriodData, loadingData>>
    /\ UNCHANGED <<envVars, inputVars, moduleVars, callVars, chartVars, goalVars, themeVars, now, appVars, dateRange, tableVars>>

(***************************************************************************)
(* MainApp: navigation                                                     *)
(***************************************************************************)
PendingNav == Cardinality({k \in DOMAIN timers : timers[k].kind = "nav"})

\* NavLink onClick
NavLinkOnClick(pageName) ==
    /\ IF activePage # pageName
       THEN /\ PendingNav < MaxPendingNav
            /\ showPageContent' = FALSE
            /\ timers' = Append(timers, NavTimer(pageName))
       ELSE UNCHANGED <<showPageContent, timers>>
    /\ isSidebarOpen' = FALSE
    /\ UNCHANGED <<envVars, moduleVars, callVars, chartVars, goalVars, themeVars, now, activePage, fetchVars, tableVars>>

\* A click on the link of pageName
NavLinkClick(pageName) ==
    /\ NavLinkOnClick(pageName)
    /\ UNCHANGED lastClicked

\* The same click, with the link noted as the one clicked last
NavLinkClickNoted(pageName) ==
    /\ NavLinkOnClick(pageName)
    /\ lastClicked' = pageName

\* SheetTrigger onClick
SheetTriggerClick ==
    /\ isSidebarOpen' = TRUE
    /\ UNCHANGED <<envVars, inputVars, moduleVars, callVars, chartVars, goalVars, themeVars, now, timers, activePage, showPageContent, fetchVars, tableVars>>

\* SheetClose onClick (the button is rendered while the sheet is open)
SheetCloseClick ==
    /\ isSidebarOpen
    /\ isSidebarOpen' = FALSE
    /\ UNCHANGED <<envVars, inputVars, moduleVars, callVars, chartVars, goalVars, themeVars, now, timers, activePage, showPageContent, fetchVars, tableVars>>

\* The callback of the transition timer: setActivePage(pageName);
\* setShowPageContent(true). A change of activePage unmounts the page shown
\* (its effect cleanup runs) and mounts the other one.
NavTimerFire ==
    /\ NextDue # 0
    /\ LET k == NextDue
           t == timers[k]
       IN  /\ t.kind = "nav"
           /\ activePage' = t.page
           /\ showPageContent' = TRUE
           /\ IF t.page # activePage
              THEN MountPage(t.page, clearTimeout(Without(timers, k), activePage))
              ELSE /\ timers' = Without(timers, k)
                   /\ UNCHANGED <<fetchVars, tableVars>>
    /\ UNCHANGED <<envVars, inputVars, moduleVars, callVars, chartVars, goalVars, themeVars, now, isSidebarOpen>>

\* Time passes; a timer that is due runs before the clock moves on.
Tick ==
    /\ NextDue = 0
    /\ now < loadTime + MaxElapsed
    /\ now' = now + 1
    /\ UNCHANGED <<envVars, inputVars, moduleVars, callVars, chartVars, goalVars, themeVars, timers, appVars, fetchVars, tableVars>>

(***************************************************************************)
(* What the mounted page shows: metric cards and charts                    *)
(***************************************************************************)
\* The ids of BASE_METRIC_CONFIGS
MetricCardIds == MetricKeys \cup {"growth"}

LoadingPlaceholder == <<".",".",".">>

\* A faulty variant of the memo: the cards are computed while loading.
displayedKeyMetricsWithoutPlaceholder(id) ==
    IF id = "growth"
    THEN Returned(<<"1","0",".","5","%">>, <<"+","2",".","1","%">>, "positive",
                  <<"+","1",".","5","%"," ","v","s","."," ","P","r","e","v">>)
    ELSE getMetricValue(JsArray(RecordsAt(currentPeriodData)), id,
                        JsArray(RecordsAt(prevPeriodData)))

\* The card of displayedKeyMetrics with the given id (DashboardPage). While
\* loading, value, change and vsPrev are '...' and type is not set.
displayedKeyMetrics(id) ==
    IF loadingData
    THEN Returned(LoadingPlaceholder, LoadingPlaceholder, "undefined", LoadingPlaceholder)
    ELSE IF id = "growth"
    THEN Returned(<<"1","0",".","5","%">>, <<"+","2",".","1","%">>, "positive",
                  <<"+","1",".","5","%"," ","v","s","."," ","P","r","e","v">>)
    ELSE getMetricValue(JsArray(RecordsAt(currentPeriodData)), id,
                        JsArray(RecordsAt(prevPeriodData)))

\* The charts of the two pages whose data the model holds, by title
ChartsOfPage(page) ==
    IF page = "dashboard"
    THEN {"Revenue Trend", "Users by Day", "Conversions by Channel",
          "Marketing Funnel Performance"}
    ELSE {"Traffic Source Breakdown", "Marketing Funnel Overview",
          "Performance Over Time"}

\* What the chart with the given title renders on the mounted page; the
\* metric selected on ReportsPage is 'revenue'
PageChart(title) ==
    CASE title = "Revenue Trend" ->
            LineChartMock(JsArray(RecordsAt(currentPeriodData)), "date", "revenue",
                          loadingData)
      [] title = "Users by Day" ->
            BarChartMock(JsArray(ArraySlice(RecordsAt(currentPeriodData), -10,
                                            Len(currentPeriodData))),
                         "date", "users", loadingData)
      [] title = "Conversions by Channel" ->
            PieChartMock(JsArray(<< [channel |-> "Google Ads", conversions |-> 300],
                                    [channel |-> "Facebook Ads", conversions |-> 250],
                                    [channel |-> "SEO", conversions |-> 150],
                                    [channel |-> "Email", conversions |-> 100],
                                    [channel |-> "Content", conversions |-> 50] >>),
                         "conversions", "channel", loadingData)
      [] title = "Marketing Funnel Performance" ->
            ConversionFunnelMock(JsArray(<< [name |-> "Impressions", value |-> 500000],
                                            [name |-> "Clicks", value |-> 10000],
                                            [name |-> "Leads", value |-> 1000],
                                            [name |-> "Conversions", value |-> 100] >>),
                                 loadingData)
      [] title = "Traffic Source Breakdown" ->
            PieChartMock(JsArray(<< [source |-> "Organic Search", value |-> 4500],
                                    [source |-> "Paid Search", value |-> 3000],
                                    [source |-> "Social Media", value |-> 2000],
                                    [source |-> "Direct", value |-> 1500],
                                    [source |-> "Referral", value |-> 1000],
                                    [source |-> "Email", value |-> 800] >>),
                         "value", "source", loadingData)
      [] title = "Marketing Funnel Overview" ->
            ConversionFunnelMock(JsArray(<< [name |-> "Website Visits", value |-> 100000],
                                            [name |-> "Product Views", value |-> 25000],
                                            [name |-> "Add to Cart", value |-> 5000],
                                            [name |-> "Checkout Initiated", value |-> 1500],
                                            [name |-> "Purchases", value |-> 500] >>),
                                 loadingData)
      [] title = "Performance Over Time" ->
            LineChartMock(JsArray(RecordsAt(currentPeriodData)), "date", "revenue",
                          loadingData)

(***************************************************************************)
(* marketingGoals                                                          *)
(***************************************************************************)
\* The three goals for the given records: users is sum / 30 * 365 / 2, a
\* fraction; conversions is the sum; revenue is the sum * 10
GoalsOf(records) ==
    [ users |-> [ target |-> 100000,
                  current |-> Divide(SumOf(records, "users", Len(records)) * 365, 30 * 2) ],
      conversions |-> [ target |-> 500,
                        current |-> JsNumber(SumOf(records, "conversions", Len(records)), 1) ],
      revenue |-> [ target |-> 1000000,
                    current |-> JsNumber(SumOf(records, "revenue", Len(records)) * 10, 1) ] ]

\* A faulty variant of the goals: current is derived from the window the
\* page holds.
marketingGoalsOfWindow == GoalsOf(RecordsAt(currentPeriodData))

\* marketingGoals is computed once when the module loads, from
\* fullMarketingData.slice(-30)
marketingGoals == GoalsOf(ArraySlice(fullMarketingData, -30, Len(fullMarketingData)))

(***************************************************************************)
(* Specifications                                                          *)
(***************************************************************************)
\* The module has loaded and App has rendered: MainApp shows DashboardPage,
\* whose effect has run once.
InitPage ==
    /\ seed \in Seeds
    /\ loadTime \in LoadTimes
    /\ now = loadTime
    /\ activePage = "dashboard"
    /\ showPageContent = TRUE
    /\ isSidebarOpen = FALSE
    /\ lastClicked = "none"
    /\ dateRange = "last-30-days"
    /\ loadingData = TRUE
    /\ currentPeriodData = <<>>
    /\ prevPeriodData = <<>>
    /\ filterText = <<>>
    /\ currentPage = 1
    /\ sortColumn = "null"
    /\ sortDirection = "asc"
    /\ campaignStore = campaignData
    /\ timers = << [kind |-> "fetch", due |-> loadTime + FetchDelay,
                    page |-> "dashboard", range |-> "last-30-days"] >>

\* No call or render of the functions that are examined on their own
NoMetricCall ==
    /\ metricData = JsNull
    /\ metricKey = "revenue"
    /\ metricPrev = JsNull
    /\ metricOutcome = NoOutcome
NoChartRender ==
    /\ chartData = JsNull
    /\ chartLoading = FALSE
    /\ chartOutcome = NotRendered
NoGoalRender ==
    /\ goalCurrent = 0
    /\ goalTarget = 1
    /\ goalOutcome = GoalNotRendered
\* ThemeProvider has mounted with no stored theme on a light system
ThemeMounted ==
    /\ theme = "system"
    /\ storedTheme = "system"
    /\ prefersDark = FALSE
    /\ rootClasses = {"light"}

Init ==
    /\ InitPage
    /\ NoMetricCall
    /\ NoChartRender
    /\ NoGoalRender
    /\ ThemeMounted

\* Date range, simulated fetch and navigation
Next ==
    \/ \E range \in DateRanges : SetDateRange(range)
    \/ FetchTimerFire
    \/ \E pageName \in Pages : NavLinkClick(pageName)
    \/ SheetTriggerClick
    \/ SheetCloseClick
    \/ NavTimerFire
    \/ Tick

Spec == Init /\ [][Next]_vars

\* One page at a time under a running event loop: range changes and
\* navigation as above, a link being clicked only when no transition is
\* pending; a timer that is due fires, and the clock moves on while it may.
NextLoading ==
    \/ \E range \in DateRanges : SetDateRange(range)
    \/ FetchTimerFire
    \/ \E pageName \in Pages : (PendingNav = 0 /\ NavLinkClick(pageName))
    \/ NavTimerFire
    \/ Tick

SpecLoading ==
    /\ Init
    /\ [][NextLoading]_vars
    /\ WF_vars(FetchTimerFire)
    /\ WF_vars(NavTimerFire)
    /\ WF_vars(Tick)

\* The campaign table of DashboardPage
NextTable ==
    \/ \E text \in FilterTexts : FilterChange(text)
    \/ \E column \in SortableColumns : handleSort(column)
    \/ PreviousPage
    \/ NextPage

SpecTable == Init /\ [][NextTable]_vars

\* DashboardPage alone: changes between two ranges and their timers
\* together with the table operations, for two filter texts and one sort
\* header
DashboardDateRanges == {"last-7-days", "last-30-days"}
DashboardFilterTexts == { <<>>, <<"e","d">> }
DashboardSortColumns == {"budget"}

NextDashboard ==
    \/ \E range \in DashboardDateRanges : SetDateRange(range)
    \/ FetchTimerFire
    \/ Tick
    \/ \E text \in DashboardFilterTexts : FilterChange(text)
    \/ \E column \in DashboardSortColumns : handleSort(column)
    \/ PreviousPage
    \/ NextPage

SpecDashboard == Init /\ [][NextDashboard]_vars

\* Navigation alone, with the clicked links noted
NextNavigation ==
    \/ \E pageName \in Pages : NavLinkClickNoted(pageName)
    \/ NavTimerFire
    \/ FetchTimerFire
    \/ Tick

SpecNavigation == Init /\ [][NextNavigation]_vars

\* Pages mounted and unmounted while timers are pending and the table is
\* filtered and sorted; a link is clicked only when no transition is pending
NextRemount ==
    \/ \E range \in DashboardDateRanges : SetDateRange(range)
    \/ FetchTimerFire
    \/ \E pageName \in Pages : (PendingNav = 0 /\ NavLinkClick(pageName))
    \/ NavTimerFire
    \/ Tick
    \/ \E column \in DashboardSortColumns : handleSort(column)
    \/ \E text \in DashboardFilterTexts : FilterChange(text)

SpecRemount == Init /\ [][NextRemount]_vars

\* Calls of getMetricValue on sample windows
InitMetric ==
    /\ InitPage
    /\ metricData \in SampleWindows
    /\ metricKey \in MetricKeys
    /\ metricPrev \in SampleWindows
    /\ metricOutcome = NoOutcome
    /\ NoChartRender
    /\ NoGoalRender
    /\ ThemeMounted

NextMetric == CallGetMetricValue

SpecMetric == InitMetric /\ [][NextMetric]_vars

\* Renders of the chart components on sample inputs
InitCharts ==
    /\ InitPage
    /\ NoMetricCall
    /\ chartData \in ChartInputs
    /\ chartLoading \in BOOLEAN
    /\ chartOutcome = NotRendered
    /\ NoGoalRender
    /\ ThemeMounted

NextCharts ==
    \/ RenderLineChart
    \/ RenderBarChart
    \/ RenderPieChart
    \/ RenderFunnel

SpecCharts == InitCharts /\ [][NextCharts]_vars

\* Renders of ProgressBar for a goal whose current value changes
InitGoals ==
    /\ InitPage
    /\ NoMetricCall
    /\ NoChartRender
    /\ goalCurrent = 0
    /\ goalTarget \in 0..MaxGoalTarget
    /\ goalOutcome = GoalNotRendered
    /\ ThemeMounted

NextGoals == \E current \in 0..MaxGoalCurrent : RenderProgressBar(current)

SpecGoals == InitGoals /\ [][NextGoals]_vars

\* The theme, from before ThemeProvider renders
InitTheme ==
    /\ InitPage
    /\ NoMetricCall
    /\ NoChartRender
    /\ NoGoalRender
    /\ theme = "unmounted"
    /\ storedTheme \in StoredThemes
    /\ prefersDark \in BOOLEAN
    /\ rootClasses = {}

NextTheme ==
    \/ ThemeProviderMount
    \/ toggleTheme
    \/ SystemSchemeChange

SpecTheme == InitTheme /\ [][NextTheme]_vars

(***************************************************************************)
(* Properties of the campaign table                                        *)
(***************************************************************************)
\* The least k with k * d >= n
CeilingOf(n, d) == CHOOSE k \in 0..n : k * d >= n /\ (k = 0 \/ (k - 1) * d < n)

\* C2: after any sequence of filter edits, sort clicks and Previous/Next
\* clicks, 1 <= currentPage <= max(1, totalPages), also when the filter
\* matches no campaign.
C2_CurrentPageInRange ==
    /\ 1 <= currentPage
    /\ currentPage <= Max(1, totalPages)

\* C3: every change of the filter text resets currentPage to 1.
C3_FilterChangeResetsPage == [][filterText' # filterText => currentPage' = 1]_vars

\* A filter is in place whose result spans several pages, and the table
\* shows its first page.
C3_Witness ==
    /\ filterText # <<>>
    /\ totalPages > 1
    /\ currentPage = 1

\* C4: totalPages is ceil(n / 5) for the filtered count n, and never less
\* than 1 (no matching campaign gives 1 page).
C4_TotalPagesAtLeastOne ==
    totalPages = Max(1, CeilingOf(Len(filteredCampaigns), itemsPerPage))

\* The page slices of pages 1..n, one after the other
RECURSIVE ConcatPages(_, _)
ConcatPages(rows, n) ==
    IF n <= 0 THEN <<>> ELSE ConcatPages(rows, n - 1) \o Paginate(rows, n)

\* C5: the page slices of pages 1..totalPages, concatenated in order, are the
\* filtered and sorted sequence, and every page but the last has 5 rows.
C5_PagesCoverSortedOnce ==
    LET sorted == sortedCampaigns
        pages == TotalPagesOf(sorted)
    IN  /\ ConcatPages(sorted, pages) = sorted
        /\ \A p \in 1..(pages - 1) : Len(Paginate(sorted, p)) = 5
        /\ \A k \in DOMAIN sorted :
             Paginate(sorted, ((k - 1) \div 5) + 1)[((k - 1) % 5) + 1] = sorted[k]

\* A filtered, sorted table of three pages whose last page is partial
C5_Witness ==
    /\ filterText # <<>>
    /\ sortColumn # "null"
    /\ totalPages = 3
    /\ currentPage = 3
    /\ Len(paginatedCampaigns) \in 1..4

\* field contains text, letters compared without regard to case
ContainsIgnoringCase(field, text) ==
    \E offset \in 0..(Len(field) - Len(text)) :
        \A k \in 1..Len(text) : LowerOf[field[offset + k]] = LowerOf[text[k]]

MatchingIndexes ==
    {i \in DOMAIN campaignData :
        \/ ContainsIgnoringCase(campaignData[i].name, filterText)
        \/ ContainsIgnoringCase(campaignData[i].status, filterText)
        \/ ContainsIgnoringCase(campaignData[i].channel, filterText)}

\* C6: the filtered campaigns are exactly the campaigns whose name, status or
\* channel contains the filter text case-insensitively, in their original
\* order; the empty text yields the whole list.
C6_FilterIsMatchingSubsequence ==
    /\ Len(filteredCampaigns) = Cardinality(MatchingIndexes)
    /\ \A k \in DOMAIN filteredCampaigns :
         \E i \in MatchingIndexes :
            /\ Cardinality({j \in MatchingIndexes : j < i}) = k - 1
            /\ filteredCampaigns[k] = campaignData[i]
    /\ (filterText = <<>> => filteredCampaigns = campaignData)

\* An upper-case text that matches some campaigns only through the letters
\* of their channel, and not all campaigns
C6_Witness ==
    /\ filterText = <<"A","D","S">>
    /\ Len(filteredCampaigns) \in 1..(NumCampaigns - 1)

PositionOf(rows, id) == CHOOSE k \in DOMAIN rows : rows[k].id = id

\* C7: with sortColumn unset the filtered order is kept; with a column set,
\* rows with equal keys keep their relative order of before the sort; sorting
\* the sorted list again gives the same sequence.
C7_SortStableIdempotent ==
    LET filtered == filteredCampaigns
        sorted == SortCampaigns(filtered, sortColumn, sortDirection)
        before == [k \in DOMAIN sorted |-> PositionOf(filtered, sorted[k].id)]
    IN  /\ sortColumn = "null" => sorted = filtered
        /\ sortColumn # "null" =>
             \A i, j \in DOMAIN sorted :
                (i < j /\ sorted[i][sortColumn] = sorted[j][sortColumn])
                   => before[i] < before[j]
        /\ SortCampaigns(sorted, sortColumn, sortDirection) = sorted
        /\ Range(sorted) = Range(filtered)
        /\ Len(sorted) = Len(filtered)

\* A descending sort by a numeric column that moved rows and has a tie
C7_Witness ==
    /\ sortColumn = "budget"
    /\ sortDirection = "desc"
    /\ LET sorted == sortedCampaigns
       IN  /\ sorted # filteredCampaigns
           /\ \E i, j \in DOMAIN sorted : i < j /\ sorted[i].budget = sorted[j].budget

\* The number a roi string denotes, in hundredths of a percent; the text
\* 'Infinity%' denotes a value above every number.
RECURSIVE DigitsValue(_, _, _)
DigitsValue(str, i, acc) ==
    IF i > Len(str) THEN acc
    ELSE IF str[i] \in Range(DigitChars)
         THEN DigitsValue(str, i + 1, acc * 10 + (IndexOf(DigitChars, str[i]) - 1))
         ELSE DigitsValue(str, i + 1, acc)
RoiIsInfinite(roi) == roi[1] = "I"
RoiHundredths(roi) == IF roi[1] = "-" THEN -DigitsValue(roi, 1, 0) ELSE DigitsValue(roi, 1, 0)
RoiLeq(x, y) ==
    IF RoiIsInfinite(y) THEN TRUE
    ELSE IF RoiIsInfinite(x) THEN FALSE
    ELSE RoiHundredths(x) <= RoiHundredths(y)

NumericLeq(column, a, b) ==
    IF column = "roi" THEN RoiLeq(a.roi, b.roi) ELSE a[column] <= b[column]

\* C8: sorted ascending by a numeric column (budget, spend, conversions,
\* revenueGenerated, roi) the rows are in non-decreasing numeric order of the
\* column, descending in non-increasing order; by a string column (name,
\* status, channel) they are in lexicographic order.
C8_SortOrdersByColumnValue ==
    LET sorted == sortedCampaigns
    IN  \A i \in 1..(Len(sorted) - 1) :
            LET a == sorted[i]
                b == sorted[i + 1]
            IN  /\ sortColumn \in {"budget", "spend", "conversions", "revenueGenerated", "roi"} =>
                     IF sortDirection = "asc" THEN NumericLeq(sortColumn, a, b)
                                              ELSE NumericLeq(sortColumn, b, a)
                /\ sortColumn \in {"name", "status", "channel"} =>
                     IF sortDirection = "asc" THEN LocaleCompare(a[sortColumn], b[sortColumn]) <= 0
                                              ELSE LocaleCompare(a[sortColumn], b[sortColumn]) >= 0

\* The same statement for the columns other than roi
C8_SortOrdersExceptRoi == sortColumn # "roi" => C8_SortOrdersByColumnValue

(***************************************************************************)
(* Properties of the simulated fetch                                       *)
(***************************************************************************)
\* Every pending recomputation is the one of the mounted page for the range
\* selected last, and there is at most one.
OnlyLatestFetchPending ==
    /\ \A k \in DOMAIN timers :
          timers[k].kind = "fetch" =>
              /\ timers[k].page = activePage
              /\ timers[k].range = dateRange
    /\ Cardinality({k \in DOMAIN timers : timers[k].kind = "fetch"}) <= 1
    /\ loadingData <=> (\E k \in DOMAIN timers : timers[k].kind = "fetch")

\* A step that writes the window data or ends the loading either mounts a
\* page (empty windows, loading) or stores the windows computed for the range
\* selected last; a step that selects a range or mounts a page starts loading.
WritesAreForLatestRange ==
    /\ (\/ currentPeriodData' # currentPeriodData
        \/ prevPeriodData' # prevPeriodData
        \/ (loadingData /\ ~loadingData'))
       => IF activePage' # activePage
          THEN /\ loadingData'
               /\ currentPeriodData' = <<>>
               /\ prevPeriodData' = <<>>
          ELSE /\ ~loadingData'
               /\ dateRange' = dateRange
               /\ currentPeriodData' = getFilteredData(fullMarketingData, dateRange, now)
               /\ activePage = "dashboard" =>
                     prevPeriodData' = PreviousPeriod(fullMarketingData, dateRange, now)
               /\ activePage = "reports" => prevPeriodData' = prevPeriodData
    /\ (dateRange' # dateRange \/ activePage' # activePage) => loadingData'

\* C1: when dateRange changes again before the 500 ms delay has elapsed, the
\* pending recomputation is discarded: no timer of an earlier range is left
\* to write currentPeriodData or prevPeriodData, and the windows stored are
\* the ones computed for the range selected last.
C1_LastRangeWins == []OnlyLatestFetchPending /\ [][WritesAreForLatestRange]_vars

\* The range was changed while the first fetch of DashboardPage was pending
\* (less than two delays have passed since the mount), and the fetch for the
\* new range has completed.
C1_Witness ==
    /\ activePage = "dashboard"
    /\ now < loadTime + 2 * FetchDelay
    /\ dateRange = "last-7-days"
    /\ ~loadingData
    /\ Len(currentPeriodData) \in {6, 7}

\* The same on ReportsPage: the page was mounted, the range changed, and its
\* fetch completed.
C1_WitnessReports ==
    /\ activePage = "reports"
    /\ dateRange = "last-90-days"
    /\ ~loadingData
    /\ currentPeriodData # <<>>

(***************************************************************************)
(* Properties of the period windows                                        *)
(***************************************************************************)
\* The indexes of the n records that end with record last
RecordsUpTo(last, n) == [k \in 1..n |-> last - n + k]

AscendingByDate(window) ==
    \A k \in 1..(Len(window) - 1) :
        fullMarketingData[window[k]].date < fullMarketingData[window[k + 1]].date

\* C9: for a range of N = 7, 30 or 90 days the current window is the N most
\* recent records of the 365-record series and the previous window the N
\* records right before them; both are ascending by date.
C9_WindowsAreAdjacentRuns ==
    (/\ activePage = "dashboard"
     /\ ~loadingData
     /\ dateRange \in {"last-7-days", "last-30-days", "last-90-days"})
    => LET n == DurationDays(dateRange)
       IN  /\ Len(fullMarketingData) = NumDays
           /\ currentPeriodData = RecordsUpTo(NumDays, n)
           /\ prevPeriodData = RecordsUpTo(NumDays - n, n)
           /\ AscendingByDate(currentPeriodData)
           /\ AscendingByDate(prevPeriodData)

\* The same statement for fetches that run on the UTC day the series was
\* generated on (the clock of the model cannot pass two midnights).
C9_WindowsOnGenerationDay ==
    ToISODate(now) = ToISODate(loadTime) => C9_WindowsAreAdjacentRuns

(***************************************************************************)
(* Properties of getMetricValue                                            *)
(***************************************************************************)
\* C10: called with an empty or missing window, getMetricValue returns the
\* summary whose value, change and vsPrev are all 'N/A', for every key and
\* every previous window, and throws nothing.
C10_EmptyWindowGivesSentinel ==
    (/\ metricOutcome # NoOutcome
     /\ (metricData.kind = "null" \/ Len(metricData.items) = 0))
    => /\ metricOutcome.threw = "none"
       /\ metricOutcome.value = NotAvailable
       /\ metricOutcome.change = NotAvailable
       /\ metricOutcome.vsPrev = NotAvailable
       /\ metricOutcome.type = "neutral"

\* A call with an empty array and a previous window that has records
C10_Witness ==
    /\ metricOutcome # NoOutcome
    /\ metricData = JsArray(<<>>)
    /\ metricKey = "cpc"
    /\ metricPrev.kind = "array"
    /\ Len(metricPrev.items) > 0

\* A call with a missing window
C10_WitnessMissing ==
    /\ metricOutcome # NoOutcome
    /\ metricData = JsNull

\* The total of a field over a window, from the first record on
RECURSIVE TotalFrom(_, _, _)
TotalFrom(items, key, i) ==
    IF i > Len(items) THEN 0 ELSE items[i][key] + TotalFrom(items, key, i + 1)

\* The aggregation basis of a metric: the last value for cpc, else the total
BasisOf(items, key) ==
    IF key = "cpc" THEN items[Len(items)][key] ELSE TotalFrom(items, key, 1)

\* The number a formatted text shows, digits only (separators and signs
\* dropped), negative when the text starts with '-'
ShownNumber(text) ==
    IF text[1] = "-" THEN -DigitsValue(text, 1, 0) ELSE DigitsValue(text, 1, 0)

CalledOnWindow ==
    /\ metricOutcome # NoOutcome
    /\ metricData.kind = "array"
    /\ Len(metricData.items) > 0

HasPrevious == metricPrev.kind = "array" /\ Len(metricPrev.items) > 0

\* C11: for a non-empty window the value shown is the sum over the window for
\* revenue, users, conversions, impressions and clicks and the last record's
\* value (to the cent) for cpc; the comparison with a previous window whose
\* base is not zero takes the same basis on both sides.
C11_ValueAndComparisonBasis ==
    CalledOnWindow =>
        LET items == metricData.items
            shown == ShownNumber(metricOutcome.value)
        IN  /\ metricOutcome.threw = "none"
            /\ metricKey # "cpc" => shown = TotalFrom(items, metricKey, 1)
            /\ metricKey = "cpc" =>
                 2 * Abs(shown * RandMod - 100 * items[Len(items)].cpc) <= RandMod
            /\ (metricOutcome.value[1] = "$") <=> (metricKey \in {"revenue", "cpc"})
            /\ (HasPrevious /\ BasisOf(metricPrev.items, metricKey) > 0) =>
                 LET base == BasisOf(metricPrev.items, metricKey)
                 IN  metricOutcome.vsPrev =
                        PercentToFixed1(BasisOf(items, metricKey) - base, base)
                           \o <<"%"," ","v","s","."," ","P","r","e","v">>

\* A cpc call where sum and last value differ on both sides
C11_Witness ==
    /\ CalledOnWindow
    /\ HasPrevious
    /\ metricKey = "cpc"
    /\ Len(metricData.items) > 1
    /\ Len(metricPrev.items) > 1
    /\ BasisOf(metricPrev.items, "cpc") > 0
    /\ TotalFrom(metricPrev.items, "cpc", 1) # BasisOf(metricPrev.items, "cpc")

C12_NoComparisonWithoutPrevious ==
    (CalledOnWindow /\ ~HasPrevious)
    => /\ metricOutcome.threw = "none"
       /\ metricOutcome.vsPrev = NotAvailable

\* C13: for a non-empty window the change shown is (last value - first
\* value) / first value x 100 of the daily values, to one decimal, and the
\* type is 'positive' exactly when that change is >= 0; daily revenues
\* 130..190 give 46.2% and 'positive'.
C13_ChangeWithinWindow ==
    CalledOnWindow =>
        LET items == metricData.items
            first == items[1][metricKey]
            last == items[Len(items)][metricKey]
            tenths == ShownNumber(metricOutcome.change)
        IN  /\ metricOutcome.threw = "none"
            /\ first > 0 =>
                 /\ 2 * Abs(tenths * first - 1000 * (last - first)) <= first
                 /\ (metricOutcome.type = "positive") <=> (last - first >= 0)
                 /\ metricOutcome.type \in {"positive", "negative"}
            /\ (metricData = RisingWindow /\ metricKey = "revenue") =>
                 /\ metricOutcome.change = <<"4","6",".","2","%">>
                 /\ metricOutcome.type = "positive"

\* The call on the week of revenues 130..190
C13_Witness ==
    /\ CalledOnWindow
    /\ metricData = RisingWindow
    /\ metricKey = "revenue"
    /\ metricOutcome.type = "positive"

(***************************************************************************)
(* Properties of the chart components                                      *)
(***************************************************************************)
RECURSIVE GCD(_, _)
GCD(a, b) == IF b = 0 THEN a ELSE GCD(b, a % b)

\* Two numbers are the same fraction
SameNumber(x, y) ==
    /\ x.kind = "number"
    /\ y.kind = "number"
    /\ LET gx == GCD(Abs(x.num), x.den)
           gy == GCD(Abs(y.num), y.den)
       IN  /\ x.num \div gx = y.num \div gy
           /\ x.den \div gx = y.den \div gy

IsNumber(x) == x.kind = "number"

ChartDrawn(component) ==
    /\ chartOutcome.component = component
    /\ chartOutcome.shows = "chart"

ChartValues == [i \in DOMAIN chartData.items |-> chartData.items[i].value]

\* C14: when all y-values are equal (max == min), a single point included,
\* every point the line mapper emits has a defined numeric x and y, and all
\* y lie on one midline.
C14_FlatLineIsMidline ==
    (/\ ChartDrawn("line")
     /\ \A i, j \in DOMAIN ChartValues : ChartValues[i] = ChartValues[j])
    => LET points == chartOutcome.shapes
       IN  /\ Len(points) = Len(ChartValues)
           /\ \A i \in DOMAIN points : IsNumber(points[i].x) /\ IsNumber(points[i].y)
           /\ \A i, j \in DOMAIN points : SameNumber(points[i].y, points[j].y)

\* For values that are not all equal every point is numeric, x runs from 10
\* to 290 and y lies between 10 and 90.
C14_SlopedLineIsDefined ==
    (/\ ChartDrawn("line")
     /\ \E i, j \in DOMAIN ChartValues : ChartValues[i] # ChartValues[j])
    => LET points == chartOutcome.shapes
       IN  /\ \A i \in DOMAIN points :
                /\ IsNumber(points[i].x) /\ IsNumber(points[i].y)
                /\ 10 * points[i].y.den <= points[i].y.num
                /\ points[i].y.num <= 90 * points[i].y.den
           /\ SameNumber(points[1].x, JsNumber(10, 1))
           /\ SameNumber(points[Len(points)].x, JsNumber(290, 1))

\* C15: for a non-empty pie input with positive total, slice i spans
\* value_i / total x 360 degrees and starts where slice i-1 ended, the first
\* at 0; the last slice ends at 360; the large-arc flag is 1 exactly when the
\* angle exceeds 180; the input [30, 70] gives the angles 108 and 252.
C15_SlicesPartitionCircle ==
    (ChartDrawn("pie") /\ TotalFrom(chartData.items, "value", 1) > 0)
    => LET total == TotalFrom(chartData.items, "value", 1)
           slices == chartOutcome.shapes
           n == Len(slices)
       IN  /\ n = Len(ChartValues)
           /\ \A i \in 1..n :
                /\ SameNumber(slices[i].angle, Divide(ChartValues[i] * 360, total))
                /\ SameNumber(slices[i].endAngle, Plus(slices[i].startAngle, slices[i].angle))
                /\ (slices[i].largeArcFlag = 1) <=> (2 * ChartValues[i] > total)
                /\ slices[i].largeArcFlag \in {0, 1}
           /\ SameNumber(slices[1].startAngle, JsNumber(0, 1))
           /\ \A i \in 2..n : SameNumber(slices[i].startAngle, slices[i - 1].endAngle)
           /\ SameNumber(slices[n].endAngle, JsNumber(360, 1))
           /\ ChartValues = <<30, 70>> =>
                /\ SameNumber(slices[1].angle, JsNumber(108, 1))
                /\ SameNumber(slices[2].angle, JsNumber(252, 1))

\* The pie of the input [30, 70]: the second slice takes the large arc
C15_Witness ==
    /\ ChartDrawn("pie")
    /\ ChartValues = <<30, 70>>
    /\ chartOutcome.shapes[1].largeArcFlag = 0
    /\ chartOutcome.shapes[2].largeArcFlag = 1

FunnelBands(maximum) ==
    LET polygons == chartOutcome.shapes
        n == Len(polygons)
        AtMostTopWidth(w) == IsNumber(w) /\ 0 <= w.num /\ w.num <= topWidth * w.den
    IN  /\ n = Len(ChartValues)
        /\ \A i \in 1..n :
             /\ SameNumber(polygons[i].yTop, Divide((i - 1) * funnelHeight, n))
             /\ SameNumber(polygons[i].yBottom, Divide(i * funnelHeight, n))
             /\ SameNumber(polygons[i].widthTop,
                           IF i = 1 THEN JsNumber(topWidth, 1)
                           ELSE Divide(topWidth * ChartValues[i - 1], maximum))
             /\ SameNumber(polygons[i].widthBottom,
                           Divide(topWidth * ChartValues[i], maximum))
             /\ AtMostTopWidth(polygons[i].widthTop)
             /\ AtMostTopWidth(polygons[i].widthBottom)
        /\ \A i \in 1..(n - 1) :
             /\ SameNumber(polygons[i].widthBottom, polygons[i + 1].widthTop)
             /\ SameNumber(polygons[i].x3, polygons[i + 1].x2)
             /\ SameNumber(polygons[i].x4, polygons[i + 1].x1)
             /\ SameNumber(polygons[i].yBottom, polygons[i + 1].yTop)

C17_ShrinkingFunnelTrapezoids ==
    (/\ ChartDrawn("funnel")
     /\ ChartValues[1] > 0
     /\ \A i \in 2..Len(ChartValues) : ChartValues[i] <= ChartValues[i - 1])
    => FunnelBands(MathMax(ChartValues))

\* A funnel whose second stage is larger than its first is drawn in full
C17_GrowingFunnelDrawn ==
    /\ ChartDrawn("funnel")
    /\ ChartValues[1] > 0
    /\ ChartValues[2] > ChartValues[1]

\* C18: every chart mapper signals no-data for a missing or empty input: the
\* line, bar and pie charts for a missing or empty array, the funnel for
\* fewer than 2 stages. Nothing is thrown and nothing is drawn, so no
\* minimum, maximum, division or element access is made on the input.
C18_NoDataIsSignalled ==
    (/\ chartOutcome # NotRendered
     /\ ~chartLoading
     /\ \/ chartData.kind = "null"
        \/ Len(chartData.items) = 0
        \/ chartOutcome.component = "funnel" /\ Len(chartData.items) < 2)
    => /\ chartOutcome.threw = "none"
       /\ chartOutcome.shows =
            IF chartOutcome.component = "funnel" THEN "not enough data" ELSE "no data"
       /\ chartOutcome.shapes = <<>>
       /\ chartOutcome.labels = <<>>

\* While the data is loading every chart shows the skeleton, whatever the input
C18_LoadingShowsSkeleton ==
    (chartOutcome # NotRendered /\ chartLoading)
    => /\ chartOutcome.threw = "none"
       /\ chartOutcome.shows = "skeleton"
       /\ chartOutcome.shapes = <<>>

\* The line chart was given an empty array
C18_Witness ==
    /\ chartOutcome.component = "line"
    /\ ~chartLoading
    /\ chartData = JsArray(<<>>)
    /\ chartOutcome.shows = "no data"

\* The funnel was given one stage
C18_WitnessFunnel ==
    /\ chartOutcome.component = "funnel"
    /\ ~chartLoading
    /\ chartData.kind = "array"
    /\ Len(chartData.items) = 1
    /\ chartOutcome.shows = "not enough data"

(***************************************************************************)
(* Properties of ProgressBar                                               *)
(***************************************************************************)
\* x <= y for two numbers
AtMost(x, y) == IsNumber(x) /\ IsNumber(y) /\ x.num * y.den <= y.num * x.den

ProgressInRange ==
    (goalOutcome.rendered /\ goalTarget > 0)
    => /\ AtMost(JsNumber(0, 1), goalOutcome.progress)
       /\ AtMost(goalOutcome.progress, JsNumber(100, 1))
       /\ goalOutcome.isComplete <=> goalCurrent >= goalTarget
       /\ goalOutcome.isComplete => SameNumber(goalOutcome.progress, JsNumber(100, 1))
       /\ ~goalOutcome.isComplete =>
            SameNumber(goalOutcome.progress, Divide(100 * goalCurrent, goalTarget))

ProgressGrowsWithCurrent ==
    (/\ goalOutcome.rendered
     /\ goalOutcome'.rendered
     /\ goalTarget > 0
     /\ goalTarget' = goalTarget
     /\ goalCurrent' >= goalCurrent)
    => AtMost(goalOutcome.progress, goalOutcome'.progress)

\* C19: for current >= 0 and target > 0 the progress percentage lies in
\* [0, 100] and does not decrease when current grows; the goal is complete
\* exactly when current >= target, and a complete goal shows 100 percent.
C19_ProgressCappedAndMonotonic ==
    []ProgressInRange /\ [][ProgressGrowsWithCurrent]_vars

\* A goal that was passed: current above target, shown as 100 percent
C19_Witness ==
    /\ goalOutcome.rendered
    /\ goalTarget > 0
    /\ goalCurrent > goalTarget
    /\ goalOutcome.isComplete
    /\ SameNumber(goalOutcome.progress, JsNumber(100, 1))

(***************************************************************************)
(* Properties of the theme                                                 *)
(***************************************************************************)
\* Once the provider is mounted the item 'theme' holds the theme state
ThemeIsPersisted == theme # "unmounted" => storedTheme = theme

\* The step that mounts the provider: a persisted value (an absent item and
\* the empty string count as none) becomes the theme; without one the theme
\* follows the system signal, 'dark' for a dark system and 'system', shown
\* with the class of the system scheme, otherwise.
StartupReadsPersisted ==
    (theme = "unmounted" /\ theme' # "unmounted")
    => IF storedTheme \notin {"null", ""}
       THEN theme' = storedTheme
       ELSE /\ theme' = (IF prefersDark THEN "dark" ELSE "system")
            /\ rootClasses' \cap {"light", "dark"} =
                 {IF prefersDark THEN "dark" ELSE "light"}

\* A toggle: the new theme is 'light' or 'dark', differs from the old one
\* and is the persisted value and the class of the root element.
TogglePersists ==
    (theme # "unmounted" /\ theme' # theme)
    => /\ theme' \in {"light", "dark"}
       /\ storedTheme' = theme'
       /\ rootClasses' \cap {"light", "dark"} = {theme'}

\* C20: at startup the theme state is the persisted value when one exists,
\* otherwise it is derived from the system light/dark signal; after every
\* toggle, and after any sequence of toggles, the value persisted under the
\* key 'theme' equals the current theme state.
C20_ThemeLifecycle ==
    []ThemeIsPersisted /\ [][StartupReadsPersisted /\ TogglePersists]_vars

\* Two toggles after a start from a persisted value the app did not write:
\* the class of that value is still on the root, the theme is 'dark'
C20_Witness ==
    /\ theme = "dark"
    /\ storedTheme = "dark"
    /\ rootClasses = {"blue", "dark"}

\* A start without a persisted value on a light system
C20_WitnessSystem ==
    /\ theme = "system"
    /\ storedTheme = "system"
    /\ rootClasses = {"light"}
    /\ ~prefersDark

(***************************************************************************)
(* Properties of the campaign list                                         *)
(***************************************************************************)
\* C21: no sequence of filter, sort and page operations modifies the
\* generated campaign list: its length, order and fields stay as generated,
\* the ids are the distinct integers 1..15 in order, and each displayed row
\* is the generated campaign with its id.
C21_CampaignsStayAsGenerated ==
    /\ campaignStore = campaignData
    /\ Len(campaignStore) = NumCampaigns
    /\ \A i \in DOMAIN campaignStore : campaignStore[i].id = i
    /\ \A k \in DOMAIN paginatedCampaigns :
          /\ paginatedCampaigns[k].id \in 1..NumCampaigns
          /\ paginatedCampaigns[k] = campaignData[paginatedCampaigns[k].id]

\* A filtered table, sorted downwards, on its second page, whose first row
\* is not the campaign at that place of the list
C21_Witness ==
    /\ filterText # <<>>
    /\ sortColumn = "budget"
    /\ sortDirection = "desc"
    /\ currentPage = 2
    /\ paginatedCampaigns # <<>>
    /\ paginatedCampaigns[1].id # itemsPerPage + 1

(***************************************************************************)
(* Properties of the loading protocol                                      *)
(***************************************************************************)
PendingFetchOf(page, range) ==
    {k \in DOMAIN timers : /\ timers[k].kind = "fetch"
                           /\ timers[k].page = page
                           /\ timers[k].range = range}

\* loadingData is true exactly while the timer of the last range change (or
\* of the mount) is pending
LoadingWhilePending == loadingData <=> PendingFetchOf(activePage, dateRange) # {}

\* While loading, every metric card of DashboardPage shows '...' and every
\* chart of the mounted page its skeleton
LoadingShowsPlaceholders ==
    loadingData =>
        /\ activePage = "dashboard" =>
              \A id \in MetricCardIds :
                  /\ displayedKeyMetrics(id).value = LoadingPlaceholder
                  /\ displayedKeyMetrics(id).change = LoadingPlaceholder
                  /\ displayedKeyMetrics(id).vsPrev = LoadingPlaceholder
        /\ \A title \in ChartsOfPage(activePage) :
              /\ PageChart(title).shows = "skeleton"
              /\ PageChart(title).shapes = <<>>

\* A mount and a range change start the loading; the loading ends only when
\* the timer of the selected range fires, and then the window of that range
\* is stored
LoadingStartsAndEnds ==
    /\ (dateRange' # dateRange \/ activePage' # activePage) => loadingData'
    /\ (loadingData /\ ~loadingData') =>
          /\ dateRange' = dateRange
          /\ activePage' = activePage
          /\ \E k \in PendingFetchOf(activePage, dateRange) :
                /\ timers[k].due <= now
                /\ timers' = Without(timers, k)
          /\ currentPeriodData' = getFilteredData(fullMarketingData, dateRange, now)

\* The pending timer of the page comes due within the time the clock covers
FetchComesDue ==
    \E k \in PendingFetchOf(activePage, dateRange) :
        timers[k].due <= loadTime + MaxElapsed

LoadingEnds ==
    \A page \in Pages : \A range \in DateRanges :
        (loadingData /\ activePage = page /\ dateRange = range /\ FetchComesDue)
            ~> (~loadingData \/ activePage # page \/ dateRange # range)

\* C22: on mount and after every dateRange change loadingData becomes true
\* and stays true until that change's 500 ms timer fires; while it is true
\* every metric card shows '...' and every chart its skeleton; with no
\* further range change or navigation loadingData eventually becomes false,
\* with the window of the selected range stored.
C22_LoadingProtocol ==
    /\ [](LoadingWhilePending /\ LoadingShowsPlaceholders)
    /\ [][LoadingStartsAndEnds]_vars
    /\ LoadingEnds

\* A range was selected on ReportsPage and its loading has ended; the line
\* chart draws the window
C22_Witness ==
    /\ activePage = "reports"
    /\ dateRange = "last-7-days"
    /\ ~loadingData
    /\ Len(currentPeriodData) \in {6, 7}
    /\ PageChart("Performance Over Time").shows = "chart"

\* The loading after a range change on DashboardPage
C22_WitnessLoading ==
    /\ activePage = "dashboard"
    /\ dateRange = "last-year"
    /\ loadingData
    /\ currentPeriodData # <<>>

(***************************************************************************)
(* The table and the date range do not touch each other                    *)
(***************************************************************************)
\* A step that changes the range, the loading flag, a window or the timers
\* keeps the view state of the table, the campaign list and the goals
RangeStepKeepsTable ==
    (\/ dateRange' # dateRange
     \/ loadingData' # loadingData
     \/ currentPeriodData' # currentPeriodData
     \/ prevPeriodData' # prevPeriodData
     \/ timers' # timers)
    => /\ filterText' = filterText
       /\ sortColumn' = sortColumn
       /\ sortDirection' = sortDirection
       /\ currentPage' = currentPage
       /\ campaignStore' = campaignStore
       /\ marketingGoals' = marketingGoals

\* A step that changes the view state of the table keeps the range, the
\* loading flag and the windows, and sets or clears no timer
TableStepKeepsRange ==
    (\/ filterText' # filterText
     \/ sortColumn' # sortColumn
     \/ sortDirection' # sortDirection
     \/ currentPage' # currentPage)
    => /\ dateRange' = dateRange
       /\ loadingData' = loadingData
       /\ currentPeriodData' = currentPeriodData
       /\ prevPeriodData' = prevPeriodData
       /\ timers' = timers
       /\ now' = now

\* C23: a date-range change and the later firing of its timer leave
\* filterText, sortColumn, sortDirection, currentPage and the goal values
\* unchanged; a filter edit, sort click or page click leaves dateRange,
\* loadingData, currentPeriodData and prevPeriodData unchanged and schedules
\* no timer.
C23_TableAndRangeAreIndependent ==
    [][RangeStepKeepsTable /\ TableStepKeepsRange]_vars

\* The table was filtered, sorted and paged, and another range was loaded
C23_Witness ==
    /\ filterText = <<"e","d">>
    /\ sortColumn = "budget"
    /\ sortDirection = "desc"
    /\ currentPage = 2
    /\ dateRange = "last-7-days"
    /\ ~loadingData
    /\ currentPeriodData # <<>>

(***************************************************************************)
(* Properties of the sort headers                                          *)
(***************************************************************************)
\* A step that changes the sort: the same column with the direction
\* flipped, or another sortable column with direction 'asc'; the filter
\* text and the page stay
SortClickStep ==
    (sortColumn' # sortColumn \/ sortDirection' # sortDirection)
    => /\ IF sortColumn' = sortColumn
          THEN /\ sortColumn # "null"
               /\ {sortDirection, sortDirection'} = {"asc", "desc"}
          ELSE /\ sortColumn' \in SortableColumns
               /\ sortDirection' = "asc"
       /\ filterText' = filterText
       /\ currentPage' = currentPage

\* A column once set is never unset by a step
SortColumnStaysSet == sortColumn # "null" => sortColumn' # "null"

\* C24: a click on the header of the current sort column flips
\* sortDirection and keeps the column; a click on another header sets
\* sortColumn to it and sortDirection to 'asc'; filterText and currentPage
\* are unchanged, and once a header was clicked sortColumn is never unset.
C24_SortHeaderClicks ==
    /\ [](sortDirection \in {"asc", "desc"})
    /\ [][SortClickStep /\ SortColumnStaysSet]_vars

\* The name header was clicked twice on the third page of the whole list
C24_Witness ==
    /\ sortColumn = "name"
    /\ sortDirection = "desc"
    /\ filterText = <<>>
    /\ currentPage = 3

(***************************************************************************)
(* Properties of mounting and unmounting a page                            *)
(***************************************************************************)
FetchTimers == {k \in DOMAIN timers : timers[k].kind = "fetch"}

\* At most one recomputation timer is pending, and it belongs to the
\* mounted page: no callback is left for a page that was unmounted
OneTimerOfMountedPage ==
    /\ Cardinality(FetchTimers) <= 1
    /\ \A k \in FetchTimers : timers[k].page = activePage

\* A step that stores a window or ends the loading runs the callback of a
\* timer of the mounted page, which stays mounted
CallbackOfMountedPage ==
    (\/ (loadingData /\ ~loadingData')
     \/ (activePage' = activePage /\ currentPeriodData' # currentPeriodData)
     \/ (activePage' = activePage /\ prevPeriodData' # prevPeriodData))
    => /\ activePage' = activePage
       /\ \E k \in FetchTimers :
             /\ timers[k].page = activePage
             /\ timers[k].due <= now
             /\ timers' = Without(timers, k)

\* A step that changes the page cancels the timer of the page it unmounts
\* and mounts the other page loading, with default view state and one timer
RemountStartsAfresh ==
    activePage' # activePage
    => /\ \A k \in DOMAIN timers' :
             timers'[k].kind = "fetch" =>
                 /\ timers'[k].page = activePage'
                 /\ timers'[k].range = "last-30-days"
                 /\ timers'[k].due = now + FetchDelay
       /\ \E k \in DOMAIN timers' : timers'[k].kind = "fetch"
       /\ loadingData'
       /\ dateRange' = "last-30-days"
       /\ currentPeriodData' = <<>>
       /\ prevPeriodData' = <<>>
       /\ filterText' = <<>>
       /\ currentPage' = 1
       /\ sortColumn' = "null"
       /\ sortDirection' = "asc"

\* C25: each mounted page has at most one pending recomputation timer;
\* navigating away from a page while its timer is pending cancels it, so no
\* timer callback sets window data or loadingData on a page that is no
\* longer mounted; a page mounted again starts loading with default view
\* state.
C25_UnmountCancelsTimer ==
    /\ []OneTimerOfMountedPage
    /\ [][CallbackOfMountedPage /\ RemountStartsAfresh]_vars

\* ReportsPage was mounted before the first timer of DashboardPage came due
C25_Witness ==
    /\ activePage = "reports"
    /\ now < loadTime + FetchDelay
    /\ loadingData
    /\ Cardinality(FetchTimers) = 1

\* DashboardPage is mounted again after ReportsPage
C25_WitnessBack ==
    /\ activePage = "dashboard"
    /\ now >= loadTime + 2 * NavDelay
    /\ loadingData
    /\ sortColumn = "null"
    /\ \E k \in FetchTimers : timers[k].due = loadTime + 2 * NavDelay + FetchDelay

(***************************************************************************)
(* Properties of the navigation                                            *)
(***************************************************************************)
\* C26: after any sequence of navigation-link clicks, once all 300 ms
\* transition timers have fired, activePage is the page of the link clicked
\* last, also when clicks arrive while an earlier transition is pending.
C26_ActivePageIsLastClicked ==
    (PendingNav = 0 /\ lastClicked # "none") => activePage = lastClicked

\* The transition to ReportsPage has run although the Dashboard link was
\* clicked after the Reports link
C26_ClickDuringTransitionLost ==
    /\ PendingNav = 0
    /\ lastClicked = "dashboard"
    /\ activePage = "reports"
    /\ now < loadTime + 2 * NavDelay

(***************************************************************************)
(* Properties of the class of the document root                            *)
(***************************************************************************)
SchemeClasses(classes) == classes \cap {"light", "dark"}

\* A toggle takes the root from 'light' to 'dark' or from 'dark' to 'light'
ToggleFlipsClass ==
    (theme # "unmounted" /\ theme' # theme)
    => \/ SchemeClasses(rootClasses) = {"light"} /\ SchemeClasses(rootClasses') = {"dark"}
       \/ SchemeClasses(rootClasses) = {"dark"} /\ SchemeClasses(rootClasses') = {"light"}

\* After the mount and after each toggle the root carries one of the two
OneSchemeClass ==
    theme' # theme => Cardinality(SchemeClasses(rootClasses')) = 1

\* C27: every click on the theme toggle changes the class of the document
\* root from light to dark or from dark to light, for every startup state
\* (persisted value present or absent, system preference light or dark),
\* and the root carries exactly one of the two classes after each update.
C27_ToggleFlipsRootClass == [][ToggleFlipsClass /\ OneSchemeClass]_vars

\* The same for toggles made while the theme is 'light' or 'dark'
C27_ToggleFlipsFromLightOrDark ==
    [][(theme \in {"light", "dark"}) => ToggleFlipsClass]_vars

(***************************************************************************)
(* Properties of the 'last-year' range                                     *)
(***************************************************************************)
\* C28: with the generated 365-record series, after loading 'last-year'
\* the current window holds all 365 records and the previous window is
\* empty, so every metric card but the static one reports vsPrev as 'N/A';
\* for 'last-7-days', 'last-30-days' and 'last-90-days' the previous window
\* is not empty.
C28_LastYearHasNoPrevious ==
    (activePage = "dashboard" /\ ~loadingData)
    => /\ Len(fullMarketingData) = NumDays
       /\ dateRange = "last-year" =>
             /\ currentPeriodData = [k \in 1..NumDays |-> k]
             /\ prevPeriodData = <<>>
             /\ \A id \in MetricKeys : displayedKeyMetrics(id).vsPrev = NotAvailable
       /\ dateRange # "last-year" => prevPeriodData # <<>>

\* The same statement for fetches that run on the UTC day the series was
\* generated on
C28_LastYearOnGenerationDay ==
    ToISODate(now) = ToISODate(loadTime) => C28_LastYearHasNoPrevious

\* 'last-year' loaded on the day after the generation: the oldest record has
\* moved from the current window to the previous one
C28_OldestRecordIsPrevious ==
    /\ activePage = "dashboard"
    /\ ~loadingData
    /\ dateRange = "last-year"
    /\ Len(currentPeriodData) = NumDays - 1
    /\ prevPeriodData = <<1>>
    /\ displayedKeyMetrics("revenue").vsPrev # NotAvailable

====
